---- MODULE Spec2Model ----
(***************************************************************************)
(* A model of books-we-love: the file-backed datastore of tracking records *)
(* (datastore.py), the reconciliation loop (tracker.py track_books) and    *)
(* the CLI handlers that mutate the datastore (cli/init.py, cli/book.py).  *)
(*                                                                         *)
(* Time is counted in units of 15 minutes, the smallest backoff delay.     *)
(* The datastore file is a sequence of <<key, payload>> entries: a Python  *)
(* dict in insertion order, as json.dump writes it and json.load reads it. *)
(***************************************************************************)
EXTENDS Integers, Sequences, FiniteSets, TLC

VARIABLES
    disk,    \* data/datastore.json: Seq of [key, payload], insertion order
    files,   \* the years whose data/best-books-{year}.json exists locally
    clock,   \* the wall clock (utcnow), in units of 15 minutes
    run,     \* the process: its options, locals and position
    last     \* history, of the last command step: "dry_run", track_books with
             \* dry_run set; "reset", a reset that reset records;
             \* "noop", a command that returned without doing its work; or "other"
VARIABLES
    fs       \* data/datastore.json ("path") and data/datastore.json.tmp ("tmp")
             \* as files: what SpecFile, the program at the level of one load
             \* and one save, reads and writes; disk is the dict in the file

vars == <<disk, files, clock, run, last, fs>>

(***************************************************************************)
(* Bounds of the model                                                     *)
(***************************************************************************)
MaxTime == 1        \* the clock stops advancing here
MaxAttempts == 2    \* no lookup fails for a record that already has this many attempts

(***************************************************************************)
(* Python values                                                           *)
(***************************************************************************)
None == "None"      \* None / JSON null where the value is otherwise a string
NoneInt == -1       \* None where the value is otherwise an int or a datetime

FIRST_YEAR == 2013

\* downloader.available_years(): FIRST_YEAR .. the current max year
AvailableYears == {FIRST_YEAR, FIRST_YEAR + 1}

\* downloader._target_years(year)
TargetYears(year) == IF year # NoneInt THEN {year} ELSE AvailableYears

\* str.strip() on the strings that occur in the yearly JSON
Strip(s) == CASE s = " Dune " -> "Dune"
              [] s = "" -> ""
              [] OTHER -> s

\* The content of https://apps.npr.org/best-books/{year}.json: a list of book
\* dicts {id, title, author, cover}; cover None stands for a missing cover.
YearJson(year) ==
    CASE year = FIRST_YEAR ->
            << [id |-> 1, title |-> " Dune ", author |-> "Herbert", cover |-> "0441013597"] >>
      [] year = FIRST_YEAR + 1 ->
            << [id |-> 2, title |-> "Emma", author |-> "Austen", cover |-> None] >>
      [] OTHER -> << >>

(***************************************************************************)
(* datastore.py: Status, timestamps, BookRecord                            *)
(***************************************************************************)
PENDING == "PENDING"
IN_PROGRESS == "IN_PROGRESS"
TRACKED == "TRACKED"
FAILED == "FAILED"
StatusMembers == {PENDING, IN_PROGRESS, TRACKED, FAILED}
ValueError == "ValueError"

\* Status.<member>.value
StatusValue(s) ==
    CASE s = PENDING -> "pending"
      [] s = IN_PROGRESS -> "in_progress"
      [] s = TRACKED -> "tracked"
      [] s = FAILED -> "failed"

\* Status(value): the member with that value, or ValueError
StatusOf(v) ==
    CASE v = "pending" -> PENDING
      [] v = "in_progress" -> IN_PROGRESS
      [] v = "tracked" -> TRACKED
      [] v = "failed" -> FAILED
      [] OTHER -> ValueError

\* a faulty _parse_dt that returns None for every value
ParseDtAlwaysNone(value) == NoneInt

\* _parse_dt: an ISO string <<t>> to the datetime t, null <<>> to None
ParseDt(value) == IF value = << >> THEN NoneInt ELSE value[1]

\* _isoformat: the datetime t to the ISO string <<t>>, None to null <<>>
IsoFormat(dt) == IF dt = NoneInt THEN << >> ELSE << dt >>

\* _book_key(year, local_id): "{year}:{local_id}"
BookKey(year, local_id) == << year, local_id >>

\* a faulty from_state that reads an unknown status as FAILED
FromStateUnknownIsFailed(key, payload) ==
    LET status_str == IF "status" \in DOMAIN payload THEN payload.status
                      ELSE StatusValue(PENDING)
        status == IF StatusOf(status_str) = ValueError
                  THEN FAILED ELSE StatusOf(status_str)
    IN  [ key |-> key,
          source_year |-> payload.source_year,
          local_id |-> payload.local_id,
          title |-> payload.title,
          author |-> payload.author,
          isbn10 |-> payload.identifiers.isbn10,
          isbn13 |-> payload.identifiers.isbn13,
          goodreads_id |-> payload.identifiers.goodreads_id,
          status |-> status,
          attempts |-> payload.attempts,
          last_attempt_at |-> ParseDt(payload.last_attempt_at),
          next_retry_at |-> ParseDt(payload.next_retry_at),
          last_error |-> payload.last_error,
          remote_tracked |-> payload.remote.tracked,
          remote_entity_type |-> payload.remote.entity_type,
          remote_api_id |-> payload.remote.api_id,
          remote_extra |-> IF payload.remote.extra = None THEN "{}"
                           ELSE payload.remote.extra ]

\* BookRecord.from_state(key, payload); a payload written by hand may lack its
\* "status" member
FromState(key, payload) ==
    LET status_str == IF "status" \in DOMAIN payload THEN payload.status
                      ELSE StatusValue(PENDING)
        status == IF StatusOf(status_str) = ValueError
                  THEN PENDING ELSE StatusOf(status_str)
    IN  [ key |-> key,
          source_year |-> payload.source_year,
          local_id |-> payload.local_id,
          title |-> payload.title,
          author |-> payload.author,
          isbn10 |-> payload.identifiers.isbn10,
          isbn13 |-> payload.identifiers.isbn13,
          goodreads_id |-> payload.identifiers.goodreads_id,
          status |-> status,
          attempts |-> payload.attempts,
          last_attempt_at |-> ParseDt(payload.last_attempt_at),
          next_retry_at |-> ParseDt(payload.next_retry_at),
          last_error |-> payload.last_error,
          remote_tracked |-> payload.remote.tracked,
          remote_entity_type |-> payload.remote.entity_type,
          remote_api_id |-> payload.remote.api_id,
          remote_extra |-> IF payload.remote.extra = None THEN "{}"
                           ELSE payload.remote.extra ]

\* BookRecord.to_state()
ToState(rec) ==
    [ source_year |-> rec.source_year,
      local_id |-> rec.local_id,
      title |-> rec.title,
      author |-> rec.author,
      identifiers |-> [ isbn10 |-> rec.isbn10,
                        isbn13 |-> rec.isbn13,
                        goodreads_id |-> rec.goodreads_id ],
      status |-> StatusValue(rec.status),
      attempts |-> rec.attempts,
      last_attempt_at |-> IsoFormat(rec.last_attempt_at),
      next_retry_at |-> IsoFormat(rec.next_retry_at),
      last_error |-> rec.last_error,
      remote |-> [ tracked |-> rec.remote_tracked,
                   entity_type |-> rec.remote_entity_type,
                   api_id |-> rec.remote_api_id,
                   extra |-> rec.remote_extra ] ]

(***************************************************************************)
(* The State dict: lookups and assignments by key                          *)
(***************************************************************************)
Keys(state) == { state[i].key : i \in 1..Len(state) }

\* the position of key in the dict, 0 when absent
IndexOf(state, key) ==
    IF key \in Keys(state)
    THEN CHOOSE i \in 1..Len(state) : state[i].key = key
    ELSE 0

\* state[key] / state.get(key)
Get(state, key) == state[IndexOf(state, key)].payload

\* a faulty assignment that adds a second entry for a present key
PutAppends(state, key, payload) ==
    Append(state, [key |-> key, payload |-> payload])

\* state[key] = payload: in place for a present key, appended for a new one
Put(state, key, payload) ==
    IF key \in Keys(state)
    THEN [state EXCEPT ![IndexOf(state, key)].payload = payload]
    ELSE Append(state, [key |-> key, payload |-> payload])

(***************************************************************************)
(* Files and JSON                                                          *)
(***************************************************************************)
\* A file is missing, unreadable (open raises OSError) or holds a text. A
\* JSON text is a sequence of tokens, which json.dump writes one at a time:
\* brackets, and the members of a dict, each a [key, payload] entry.
Missing == [kind |-> "missing", text |-> << >>]
Unreadable == [kind |-> "unreadable", text |-> << >>]
TextFile(text) == [kind |-> "file", text |-> text]

OpenBrace == [tok |-> "{"]
CloseBrace == [tok |-> "}"]
OpenBracket == [tok |-> "["]
CloseBracket == [tok |-> "]"]
Brackets == {OpenBrace, CloseBrace, OpenBracket, CloseBracket}

\* json.dump(state, f): the text of a dict, its members in insertion order
JsonDump(state) == << OpenBrace >> \o state \o << CloseBrace >>

\* the text between the first and the last token
Inner(text) == SubSeq(text, 2, Len(text) - 1)

\* the text is a complete JSON object
IsJsonObject(text) ==
    /\ Len(text) >= 2
    /\ text[1] = OpenBrace
    /\ text[Len(text)] = CloseBrace
    /\ \A i \in 2..(Len(text) - 1) : text[i] \notin Brackets

\* the text is a complete JSON array
IsJsonArray(text) ==
    /\ Len(text) >= 2
    /\ text[1] = OpenBracket
    /\ text[Len(text)] = CloseBracket
    /\ \A i \in 2..(Len(text) - 1) : text[i] \notin Brackets

\* json.load(f): the dict of an object (kind "dict"), a list for an array
\* (kind "list"), and JSONDecodeError for any other text (kind "error")
JsonLoad(text) ==
    IF IsJsonObject(text) THEN [kind |-> "dict", data |-> Inner(text)]
    ELSE IF IsJsonArray(text) THEN [kind |-> "list", data |-> Inner(text)]
    ELSE [kind |-> "error", data |-> << >>]

(***************************************************************************)
(* datastore.py: load and save                                             *)
(***************************************************************************)
\* load_state(): what it returns for the file at STATE_PATH, or that it raises:
\* {} for a missing file (line 118) and for any exception of open or json.load
\* (lines 120-125); `data.items()` (line 126) is outside the try and raises
\* AttributeError when the JSON value is not an object
LoadState(file) ==
    IF file.kind = "missing" THEN [raised |-> FALSE, state |-> << >>]
    ELSE IF file.kind = "unreadable" THEN [raised |-> FALSE, state |-> << >>]
    ELSE LET data == JsonLoad(file.text)
         IN  IF data.kind = "error" THEN [raised |-> FALSE, state |-> << >>]
             ELSE IF data.kind = "list" THEN [raised |-> TRUE, state |-> << >>]
             ELSE [raised |-> FALSE, state |-> data.data]

\* save_state_atomic(state), run to its end: the file at STATE_PATH afterwards
SaveStateAtomic(state) == TextFile(JsonDump(state))

\* the dict a command reads: load_state() on the file that holds the dict
Loaded(dict) == LoadState(SaveStateAtomic(dict)).state

\* the dict in the file after save_state_atomic(state)
Persisted(state) == LoadState(SaveStateAtomic(state)).state

(***************************************************************************)
(* datastore.py: seeding                                                   *)
(***************************************************************************)
\* ensure_book_entry, lines 147-154: the BookRecord of a new book
NewBookRecord(year, book) ==
    LET local_id == book.id
        cover == IF book.cover = None THEN "" ELSE book.cover
    IN  [ key |-> BookKey(year, local_id),
          source_year |-> year,
          local_id |-> local_id,
          title |-> Strip(book.title),
          author |-> Strip(book.author),
          isbn10 |-> IF Strip(cover) = "" THEN None ELSE Strip(cover),
          isbn13 |-> None,
          goodreads_id |-> None,
          status |-> PENDING,
          attempts |-> 0,
          last_attempt_at |-> NoneInt,
          next_retry_at |-> NoneInt,
          last_error |-> None,
          remote_tracked |-> FALSE,
          remote_entity_type |-> None,
          remote_api_id |-> None,
          remote_extra |-> "{}" ]

\* a faulty ensure_book_entry that lacks the `if key in state: return`
EnsureBookEntryOverwrites(state, year, book) ==
    Put(state, BookKey(year, book.id), ToState(NewBookRecord(year, book)))

\* a faulty ensure_book_entry that puts a new record first in the dict
EnsureBookEntryPrepends(state, year, book) ==
    LET key == BookKey(year, book.id)
    IN  IF key \in Keys(state) THEN state
        ELSE << [key |-> key, payload |-> ToState(NewBookRecord(year, book))] >> \o state

\* ensure_book_entry(state, year=year, book=book): the dict afterwards
EnsureBookEntry(state, year, book) ==
    LET local_id == book.id
        key == BookKey(year, local_id)
    IN  IF key \in Keys(state) THEN state
        ELSE Put(state, key, ToState(NewBookRecord(year, book)))

\* ensure_book_entry for every book of a list, in order
RECURSIVE EnsureAll(_, _, _)
EnsureAll(state, year, books) ==
    IF books = << >> THEN state
    ELSE EnsureAll(EnsureBookEntry(state, year, Head(books)), year, Tail(books))

\* the seeding loops of handle_init and track_books: every book of every
\* target year whose local JSON exists, years ascending
RECURSIVE SeedYears(_, _, _)
SeedYears(state, years, have) ==
    IF years = {} THEN state
    ELSE LET y == CHOOSE m \in years : \A o \in years : m <= o
             seeded == IF y \in have THEN EnsureAll(state, y, YearJson(y)) ELSE state
         IN  SeedYears(seeded, years \ {y}, have)

\* total_books: the number of books the seeding loop went through
RECURSIVE TotalBooks(_, _)
TotalBooks(years, have) ==
    IF years = {} THEN 0
    ELSE LET y == CHOOSE m \in years : TRUE
         IN  (IF y \in have THEN Len(YearJson(y)) ELSE 0) + TotalBooks(years \ {y}, have)

(***************************************************************************)
(* datastore.py: eligibility                                               *)
(***************************************************************************)
\* iter_pending, lines 174-177: Status(status_value) raises ValueError and the
\* generator returns at once
FilterRaises(status) == status # None /\ StatusOf(status) = ValueError

\* a faulty default filter that lets TRACKED records through
AllowedStatusesWithTracked(status) ==
    IF status = None THEN {PENDING, FAILED, TRACKED} ELSE {StatusOf(status)}

\* a faulty default filter that also admits records left IN_PROGRESS
AllowedStatusesWithInProgress(status) ==
    IF status = None THEN {PENDING, FAILED, IN_PROGRESS} ELSE {StatusOf(status)}

\* iter_pending, lines 168-175: the allowed statuses
AllowedStatuses(status) ==
    IF status = None THEN {PENDING, FAILED} ELSE {StatusOf(status)}

\* a faulty retry check that still skips a record at its retry time
SkippedAtRetryTime(record, now, year, allowed) ==
    \/ year # NoneInt /\ record.source_year # year
    \/ record.status \notin allowed
    \/ /\ record.status = FAILED
       /\ record.next_retry_at # NoneInt
       /\ record.next_retry_at >= now

\* a faulty loop body without the year filter
SkippedIgnoresYear(record, now, year, allowed) ==
    \/ record.status \notin allowed
    \/ /\ record.status = FAILED
       /\ record.next_retry_at # NoneInt
       /\ record.next_retry_at > now

\* iter_pending, lines 183-197: TRUE when the loop body reaches `continue`
Skipped(record, now, year, allowed) ==
    \/ year # NoneInt /\ record.source_year # year
    \/ record.status \notin allowed
    \/ /\ record.status = FAILED
       /\ record.next_retry_at # NoneInt
       /\ record.next_retry_at > now

\* iter_pending, lines 179-202, run to exhaustion on an unchanging dict from
\* position pos with count records yielded so far: the positions it yields
RECURSIVE IterFrom(_, _, _, _, _, _, _)
IterFrom(state, pos, count, now, limit, year, allowed) ==
    IF pos > Len(state) THEN << >>
    ELSE LET record == FromState(state[pos].key, state[pos].payload)
         IN  IF Skipped(record, now, year, allowed)
             THEN IterFrom(state, pos + 1, count, now, limit, year, allowed)
             ELSE << pos >> \o
                  (IF limit # NoneInt /\ count + 1 >= limit THEN << >>
                   ELSE IterFrom(state, pos + 1, count + 1, now, limit, year, allowed))

\* list(iter_pending(state, now=now, limit=limit, year=year, status=status)):
\* the keys yielded, in order
IterPending(state, now, limit, year, status) ==
    IF FilterRaises(status) THEN << >>
    ELSE LET ps == IterFrom(state, 1, 0, now, limit, year, AllowedStatuses(status))
         IN  [ i \in 1..Len(ps) |-> state[ps[i]].key ]

\* a faulty generator whose limit check lets one record more through
NextYieldOneMore(state, pos, yielded, now, limit, year, status) ==
    IF FilterRaises(status) THEN 0
    ELSE IF yielded > 0 /\ limit # NoneInt /\ yielded > limit THEN 0
    ELSE LET ok == { p \in pos..Len(state) :
                       ~Skipped(FromState(state[p].key, state[p].payload),
                                now, year, AllowedStatuses(status)) }
         IN  IF ok = {} THEN 0 ELSE CHOOSE p \in ok : \A q \in ok : p <= q

\* a faulty generator that scans the dict from its first record at every
\* resumption
NextYieldRescans(state, pos, yielded, now, limit, year, status) ==
    IF FilterRaises(status) THEN 0
    ELSE IF yielded > 0 /\ limit # NoneInt /\ yielded >= limit THEN 0
    ELSE LET ok == { p \in 1..Len(state) :
                       ~Skipped(FromState(state[p].key, state[p].payload),
                                now, year, AllowedStatuses(status)) }
         IN  IF ok = {} THEN 0 ELSE CHOOSE p \in ok : \A q \in ok : p <= q

\* one resumption of the generator inside the acquire loop, the dict as it is
\* now: the position of the next record yielded, 0 when the generator returns.
\* yielded is the number of records yielded before (count after `count += 1`).
NextYield(state, pos, yielded, now, limit, year, status) ==
    IF FilterRaises(status) THEN 0
    ELSE IF yielded > 0 /\ limit # NoneInt /\ yielded >= limit THEN 0
    ELSE LET ok == { p \in pos..Len(state) :
                       ~Skipped(FromState(state[p].key, state[p].payload),
                                now, year, AllowedStatuses(status)) }
         IN  IF ok = {} THEN 0 ELSE CHOOSE p \in ok : \A q \in ok : p <= q

(***************************************************************************)
(* datastore.py: lifecycle transitions of one record                       *)
(***************************************************************************)
\* a faulty mark_in_progress that leaves the status as it was
MarkInProgressKeepsStatus(record, now) ==
    [record EXCEPT !.last_attempt_at = now]

\* a faulty mark_in_progress that leaves last_attempt_at as it was
MarkInProgressKeepsTimestamp(record, now) ==
    [record EXCEPT !.status = IN_PROGRESS]

\* mark_in_progress(record, now=now)
MarkInProgress(record, now) ==
    [record EXCEPT !.status = IN_PROGRESS, !.last_attempt_at = now]

\* a faulty mark_tracked that also clears the attempts counter
MarkTrackedClearsAttempts(record, entity_type, api_id, extra, now) ==
    [record EXCEPT !.status = TRACKED,
                   !.attempts = 0,
                   !.remote_tracked = TRUE,
                   !.remote_entity_type = entity_type,
                   !.remote_api_id = api_id,
                   !.remote_extra = IF extra = None THEN "{}" ELSE extra,
                   !.next_retry_at = NoneInt,
                   !.last_attempt_at = now,
                   !.last_error = None]

\* a faulty mark_tracked that leaves the status as it was
MarkTrackedKeepsStatus(record, entity_type, api_id, extra, now) ==
    [record EXCEPT !.remote_tracked = TRUE,
                   !.remote_entity_type = entity_type,
                   !.remote_api_id = api_id,
                   !.remote_extra = IF extra = None THEN "{}" ELSE extra,
                   !.next_retry_at = NoneInt,
                   !.last_attempt_at = now,
                   !.last_error = None]

\* a faulty mark_tracked that leaves the last error and the retry time
MarkTrackedKeepsError(record, entity_type, api_id, extra, now) ==
    [record EXCEPT !.status = TRACKED,
                   !.remote_tracked = TRUE,
                   !.remote_entity_type = entity_type,
                   !.remote_api_id = api_id,
                   !.remote_extra = IF extra = None THEN "{}" ELSE extra,
                   !.last_attempt_at = now]

\* mark_tracked(record, entity_type=, api_id=, extra=, now=now)
MarkTracked(record, entity_type, api_id, extra, now) ==
    [record EXCEPT !.status = TRACKED,
                   !.remote_tracked = TRUE,
                   !.remote_entity_type = entity_type,
                   !.remote_api_id = api_id,
                   !.remote_extra = IF extra = None THEN "{}" ELSE extra,
                   !.next_retry_at = NoneInt,
                   !.last_attempt_at = now,
                   !.last_error = None]

\* a faulty _backoff_for_attempt that lacks the 6 hours step
BackoffForAttemptNoThird(attempts) ==
    IF attempts <= 1 THEN 1
    ELSE IF attempts = 2 THEN 4
    ELSE 96

\* _backoff_for_attempt(attempts), in units of 15 minutes
BackoffForAttempt(attempts) ==
    IF attempts <= 1 THEN 1
    ELSE IF attempts = 2 THEN 4
    ELSE IF attempts = 3 THEN 24
    ELSE 96

\* a faulty mark_failed_with_backoff that gives up one attempt late
MarkFailedWithBackoffOneMore(record, error, max_attempts, now) ==
    LET attempts == record.attempts + 1
    IN  [record EXCEPT !.attempts = attempts,
                       !.last_error = error,
                       !.last_attempt_at = now,
                       !.status = FAILED,
                       !.next_retry_at =
                           IF max_attempts # NoneInt /\ attempts > max_attempts
                           THEN NoneInt ELSE now + BackoffForAttempt(attempts)]

\* mark_failed_with_backoff(record, error=, max_attempts=, now=now)
MarkFailedWithBackoff(record, error, max_attempts, now) ==
    LET attempts == record.attempts + 1
    IN  IF max_attempts # NoneInt /\ attempts >= max_attempts
        THEN [record EXCEPT !.attempts = attempts,
                            !.last_error = error,
                            !.last_attempt_at = now,
                            !.status = FAILED,
                            !.next_retry_at = NoneInt]
        ELSE [record EXCEPT !.attempts = attempts,
                            !.last_error = error,
                            !.last_attempt_at = now,
                            !.status = FAILED,
                            !.next_retry_at = now + BackoffForAttempt(attempts)]

\* a faulty reset_record that leaves next_retry_at as it was
ResetRecordKeepsRetry(record) ==
    [record EXCEPT !.status = PENDING,
                   !.attempts = 0,
                   !.last_attempt_at = NoneInt,
                   !.last_error = None]

\* reset_record(record)
ResetRecord(record) ==
    [record EXCEPT !.status = PENDING,
                   !.attempts = 0,
                   !.last_attempt_at = NoneInt,
                   !.next_retry_at = NoneInt,
                   !.last_error = None]

(***************************************************************************)
(* api_client.py: what search_book can answer                              *)
(***************************************************************************)
\* the ApiResults search_book returns
LookupResults ==
    { [kind |-> "result", found |-> TRUE, entity_type |-> "book",
       api_id |-> "gr-1", extra |-> "{title}"],
      [kind |-> "result", found |-> TRUE, entity_type |-> "book",
       api_id |-> "", extra |-> "{}"],
      [kind |-> "result", found |-> FALSE, entity_type |-> "book",
       api_id |-> None, extra |-> "{}"] }

\* api_client.py lines 30-32: str(exc) of the RuntimeError _load_config raises
\* when READARR_API_ENDPOINT or READARR_API_KEY is not set
ConfigError == "READARR_API_ENDPOINT and READARR_API_KEY must be set in the environment."

\* the exceptions search_book raises; extra holds str(exc). _call_search
\* catches the errors of the API call itself and returns no items for them
\* (lines 46-68), so what escapes search_book is the error of _load_config.
LookupErrors ==
    { [kind |-> "raise", found |-> FALSE, entity_type |-> None,
       api_id |-> None, extra |-> ConfigError] }

LookupOutcomes == LookupResults \cup LookupErrors

\* a faulty success test that does not ask for an api_id
IsTrackedIgnoresApiId(result) ==
    /\ result.kind = "result"
    /\ result.found
    /\ result.entity_type \notin {None, ""}

\* tracker.py line 259: result.found and result.api_id and result.entity_type
IsTracked(result) ==
    /\ result.kind = "result"
    /\ result.found
    /\ result.api_id \notin {None, ""}
    /\ result.entity_type \notin {None, ""}

(***************************************************************************)
(* tracker.py: track_books                                                 *)
(***************************************************************************)
NoKey == << >>
NoRec == [key |-> NoKey]

\* no acquire process is running
Idle ==
    [ pc |-> "idle", year |-> NoneInt, status |-> None, book_id |-> NoneInt,
      limit |-> 0, max_attempts |-> 0, now |-> 0, pos |-> 0, count |-> 0,
      key |-> NoKey, rec |-> NoRec, processed |-> 0,
      results |-> << >>,
      plan |-> << >> ]   \* history: what list(iter_pending(...)) was when the loop began

\* a faulty single-record path without the check of the retry time
SingleEligibleNoRetryCheck(rec, status, now) ==
    /\ status # None => StatusValue(rec.status) = status
    /\ status = None => rec.status \in {PENDING, FAILED}

\* tracker.py lines 80-106: the single-record path goes on to process rec
SingleEligible(rec, status, now) ==
    /\ status # None => StatusValue(rec.status) = status
    /\ status = None => rec.status \in {PENDING, FAILED}
    /\ ~ ( /\ rec.status = FAILED
           /\ rec.next_retry_at # NoneInt
           /\ rec.next_retry_at > now )

\* track_books from its start to its first lookup, or to its return when it
\* makes none: lines 49-232. have: the local JSON files after the downloads;
\* the result is the file, the process and what the step did.
TrackBooksStart(file, have, now, year, status, book_id, limit, max_attempts, dry_run) ==
    LET state == SeedYears(Loaded(file), TargetYears(year), have)
        saved == Persisted(state)
        total_books == TotalBooks(TargetYears(year), have)
        key == BookKey(year, book_id)
        rec == FromState(key, Get(state, key))
        marked == MarkInProgress(rec, now)
        opts == [Idle EXCEPT !.year = year, !.status = status, !.book_id = book_id,
                             !.limit = limit, !.max_attempts = max_attempts,
                             !.now = now]
    IN  IF total_books = 0
        THEN [disk |-> saved, run |-> Idle, op |-> "noop"]
        ELSE IF book_id # NoneInt
        THEN IF year = NoneInt
             THEN [disk |-> saved, run |-> Idle, op |-> "noop"]
             ELSE IF key \notin Keys(state)
             THEN [disk |-> saved, run |-> Idle, op |-> "noop"]
             ELSE IF ~SingleEligible(rec, status, now)
             THEN [disk |-> saved, run |-> Idle, op |-> "noop"]
             ELSE IF dry_run
             THEN [disk |-> saved, run |-> Idle, op |-> "other"]
             ELSE [disk |-> Persisted(Put(state, key, ToState(marked))),
                   run |-> [opts EXCEPT !.pc = "lookup", !.key = key, !.rec = marked],
                   op |-> "other"]
        ELSE IF dry_run
        THEN [disk |-> saved, run |-> Idle, op |-> "other"]
        ELSE [disk |-> saved,
              run |-> [opts EXCEPT !.pc = "iter", !.pos = 1,
                                   !.plan = IterPending(state, now, limit, year, status)],
              op |-> "other"]

\* cli/__init__.py build_parser: the defaults of book acquire
DefaultArgs ==
    [ year |-> NoneInt, status |-> None, id |-> NoneInt,
      limit |-> 10, max_attempts |-> 5, dry_run |-> FALSE ]

\* the book acquire command lines the model runs
AcquireArgs ==
    { DefaultArgs,
      [DefaultArgs EXCEPT !.limit = 0],
      [DefaultArgs EXCEPT !.max_attempts = 2],
      [DefaultArgs EXCEPT !.limit = 1, !.max_attempts = 1],
      [DefaultArgs EXCEPT !.year = FIRST_YEAR + 1],
      [DefaultArgs EXCEPT !.status = "in_progress"],
      [DefaultArgs EXCEPT !.status = "tracked"],
      [DefaultArgs EXCEPT !.year = FIRST_YEAR, !.id = 1],
      [DefaultArgs EXCEPT !.year = FIRST_YEAR, !.id = 1, !.status = "tracked"],
      [DefaultArgs EXCEPT !.year = FIRST_YEAR + 1, !.id = 2, !.max_attempts = 1],
      [DefaultArgs EXCEPT !.id = 1],
      [DefaultArgs EXCEPT !.dry_run = TRUE],
      [DefaultArgs EXCEPT !.dry_run = TRUE, !.limit = 1],
      [DefaultArgs EXCEPT !.dry_run = TRUE, !.year = FIRST_YEAR, !.id = 1] }

\* the --year values init is run with
YearOpts == AvailableYears \cup {NoneInt}

\* the --year and --id of the book reset and book show command lines the
\* model runs
ResetArgs ==
    { [year |-> FIRST_YEAR, id |-> 1],
      [year |-> FIRST_YEAR + 1, id |-> 2],
      [year |-> FIRST_YEAR + 1, id |-> 1],
      [year |-> FIRST_YEAR, id |-> NoneInt] }

\* whether the downloads of a command succeed; it shows only when a target
\* year's file is missing
OnlineOpts(year) == IF TargetYears(year) \subseteq files THEN {TRUE} ELSE BOOLEAN

\* a faulty handle_book_acquire that lacks the check of --id without --year
HandleBookAcquireNoCheck(year, status, book_id, limit, max_attempts, dry_run, online) ==
    /\ run.pc = "idle"
    /\ files' = IF online THEN files \cup TargetYears(year) ELSE files
    /\ LET r == TrackBooksStart(disk, files', clock, year, status, book_id,
                                limit, max_attempts, dry_run)
       IN  /\ disk' = r.disk
           /\ run' = r.run
           /\ last' = IF dry_run THEN "dry_run" ELSE r.op
    /\ UNCHANGED <<clock, fs>>

\* cli/book.py handle_book_acquire and track_books up to the first lookup.
\* online: the downloads of _ensure_local_year_json succeed (offline, they fail).
HandleBookAcquire(year, status, book_id, limit, max_attempts, dry_run, online) ==
    /\ run.pc = "idle"
    /\ IF book_id # NoneInt /\ year = NoneInt
       THEN /\ last' = "noop"
            /\ UNCHANGED <<disk, files, clock, run, fs>>
       ELSE /\ files' = IF online THEN files \cup TargetYears(year) ELSE files
            /\ \E r \in { TrackBooksStart(disk, files', clock, year, status, book_id,
                                           limit, max_attempts, dry_run) } :
                   /\ disk' = r.disk
                   /\ run' = r.run
                   /\ last' = IF dry_run THEN "dry_run" ELSE r.op
            /\ UNCHANGED <<clock, fs>>

\* the acquire loop asks the generator for the next record: tracker.py lines
\* 236-242 and 321-324. The process's dict equals the file after every save.
NextRecord ==
    /\ run.pc = "iter"
    /\ \E p \in { NextYield(disk, run.pos, run.count, run.now, run.limit,
                             run.year, run.status) } :
       LET state == disk
           key == state[p].key
           marked == MarkInProgress(FromState(key, state[p].payload), run.now)
       IN  IF p = 0
           THEN /\ run' = Idle
                /\ last' = "other"
                /\ UNCHANGED disk
           ELSE /\ disk' = Persisted(Put(state, key, ToState(marked)))
                /\ run' = [run EXCEPT !.pc = "lookup", !.pos = p + 1,
                                      !.count = run.count + 1,
                                      !.key = key, !.rec = marked]
                /\ last' = "other"
    /\ UNCHANGED <<files, clock, fs>>

\* result_data, tracker.py lines 244-249 and 268-312, of the lookup of rec whose
\* outcome made it the record done
ResultData(rec, result, done) ==
    IF IsTracked(result)
    THEN [ source_year |-> rec.source_year, local_id |-> rec.local_id,
           title |-> rec.title, author |-> rec.author,
           status |-> "tracked",
           entity_type |-> result.entity_type, api_id |-> result.api_id ]
    ELSE IF result.kind = "raise"
    THEN [ source_year |-> rec.source_year, local_id |-> rec.local_id,
           title |-> rec.title, author |-> rec.author,
           status |-> "error", error |-> result.extra,
           attempts |-> done.attempts,
           next_retry_at |-> IsoFormat(done.next_retry_at) ]
    ELSE [ source_year |-> rec.source_year, local_id |-> rec.local_id,
           title |-> rec.title, author |-> rec.author,
           status |-> "not_found",
           attempts |-> done.attempts,
           next_retry_at |-> IsoFormat(done.next_retry_at) ]

\* a faulty loop without the `except Exception`: a failed lookup ends the
\* process, the record left as it was saved before the lookup
LookupReturnsAborts(result) ==
    /\ run.pc = "lookup"
    /\ ~IsTracked(result) => run.rec.attempts < MaxAttempts
    /\ IF IsTracked(result)
       THEN /\ disk' = Persisted(Put(disk, run.key,
                          ToState(MarkTracked(run.rec, result.entity_type,
                                              result.api_id, result.extra, run.now))))
            /\ run' = IF run.book_id # NoneInt THEN Idle
                      ELSE [run EXCEPT !.pc = "iter", !.key = NoKey, !.rec = NoRec,
                                       !.processed = run.processed + 1,
                                       !.results = Append(run.results,
                                           ResultData(run.rec, result, run.rec))]
       ELSE /\ disk' = disk
            /\ run' = Idle
    /\ last' = "other"
    /\ UNCHANGED <<files, clock, fs>>

\* search_book returns or raises, and the outcome is recorded and saved:
\* tracker.py lines 139-207 (single record) and 251-319 (loop)
LookupReturns(result) ==
    /\ run.pc = "lookup"
    /\ ~IsTracked(result) => run.rec.attempts < MaxAttempts
    /\ LET rec == IF IsTracked(result)
                  THEN MarkTracked(run.rec, result.entity_type, result.api_id,
                                   result.extra, run.now)
                  ELSE MarkFailedWithBackoff(
                           run.rec,
                           IF result.kind = "raise" THEN result.extra ELSE "not found",
                           run.max_attempts, run.now)
       IN  /\ disk' = Persisted(Put(disk, run.key, ToState(rec)))
           /\ run' = IF run.book_id # NoneInt THEN Idle
                     ELSE [run EXCEPT !.pc = "iter", !.key = NoKey, !.rec = NoRec,
                                      !.processed = run.processed + 1,
                                      !.results = Append(run.results,
                                          ResultData(run.rec, result, rec))]
           /\ last' = "other"
    /\ UNCHANGED <<files, clock, fs>>

\* the acquire process is killed; its memory is lost, the file stays
Kill ==
    /\ run.pc # "idle"
    /\ run' = Idle
    /\ last' = "other"
    /\ UNCHANGED <<disk, files, clock, fs>>

(***************************************************************************)
(* cli/init.py and cli/book.py                                             *)
(***************************************************************************)
\* handle_init. online: the downloads of seed_books succeed (offline, they fail).
HandleInit(year, online) ==
    /\ run.pc = "idle"
    /\ files' = IF online THEN files \cup TargetYears(year) ELSE files
    /\ LET state == SeedYears(Loaded(disk), TargetYears(year), files')
       IN  disk' = IF TotalBooks(TargetYears(year), files') > 0
                   THEN Persisted(state) ELSE disk
    /\ last' = "other"
    /\ UNCHANGED <<clock, run, fs>>

\* a faulty reset loop that goes over every record of the dict
ResetEvery(state, matches) ==
    IF matches = << >> THEN state
    ELSE [ i \in 1..Len(state) |->
             [ key |-> state[i].key,
               payload |-> ToState(ResetRecord(FromState(state[i].key,
                                                          state[i].payload))) ] ]

\* the reset loop of handle_book_reset over the matches, in order
RECURSIVE ResetAll(_, _)
ResetAll(state, matches) ==
    IF matches = << >> THEN state
    ELSE LET key == Head(matches)
             rec == ResetRecord(FromState(key, Get(state, key)))
         IN  ResetAll(Put(state, key, ToState(rec)), Tail(matches))

\* the keys of state that are in the set, in the dict's order
RECURSIVE KeysIn(_, _)
KeysIn(state, set) ==
    IF state = << >> THEN << >>
    ELSE (IF Head(state).key \in set THEN << Head(state).key >> ELSE << >>)
         \o KeysIn(Tail(state), set)

\* handle_book_reset on the datastore file: with --jsonpath, matched are the
\* records the expression selects; without, --year and --id name one record.
\* The result is the file, what the command did and what it printed.
ResetCommand(file, jsonpath, matched, year, id) ==
    LET state == Loaded(file)
        key == BookKey(year, id)
        reset_keys == IF jsonpath THEN KeysIn(state, matched) ELSE << key >>
        done == [ disk |-> Persisted(ResetAll(state, reset_keys)),
                  op |-> "reset",
                  out |-> [count |-> Len(reset_keys), keys |-> reset_keys] ]
    IN  IF jsonpath
        THEN IF matched = {}
             THEN [disk |-> file, op |-> "noop", out |-> "No matching records found."]
             ELSE done
        ELSE IF year = NoneInt \/ id = NoneInt
        THEN [disk |-> file, op |-> "noop",
              out |-> "Error: must supply either --year and --id, or --jsonpath"]
        ELSE IF key \notin Keys(state)
        THEN [disk |-> file, op |-> "noop", out |-> "No datastore record found"]
        ELSE done

\* the book reset command
HandleBookReset(jsonpath, matched, year, id) ==
    /\ run.pc = "idle"
    /\ IF jsonpath THEN matched \subseteq Keys(Loaded(disk)) ELSE matched = {}
    /\ LET r == ResetCommand(disk, jsonpath, matched, year, id)
       IN  /\ disk' = r.disk
           /\ last' = r.op
    /\ UNCHANGED <<files, clock, run, fs>>

\* the sort key of handle_book_list, lines 85-88; a is at or after b in
\* ascending order of it
SortKey(entry) == << entry.payload.source_year, entry.payload.local_id >>
KeyGeq(a, b) == a[1] > b[1] \/ (a[1] = b[1] /\ a[2] >= b[2])

\* entry put into a list sorted in descending order, after its equals
RECURSIVE InsertDescending(_, _)
InsertDescending(entry, sorted) ==
    IF sorted = << >> THEN << entry >>
    ELSE IF KeyGeq(SortKey(Head(sorted)), SortKey(entry))
    THEN << Head(sorted) >> \o InsertDescending(entry, Tail(sorted))
    ELSE << entry >> \o sorted

\* a faulty handle_book_list that does not sort
ListUnsorted(matches) == matches

\* matches.sort(key=..., reverse=True): descending and stable
RECURSIVE ListSorted(_)
ListSorted(matches) ==
    IF matches = << >> THEN << >>
    ELSE InsertDescending(matches[Len(matches)],
                          ListSorted(SubSeq(matches, 1, Len(matches) - 1)))

\* [r for r in matches if r.get(field) == value] for field status or source_year
RECURSIVE FilterBy(_, _, _)
FilterBy(matches, field, value) ==
    IF matches = << >> THEN << >>
    ELSE (IF Head(matches).payload[field] = value THEN << Head(matches) >> ELSE << >>)
         \o FilterBy(Tail(matches), field, value)

\* the entries of records whose key is in the set: what a JSONPath filter finds
RECURSIVE EntriesIn(_, _)
EntriesIn(records, set) ==
    IF records = << >> THEN << >>
    ELSE (IF Head(records).key \in set THEN << Head(records) >> ELSE << >>)
         \o EntriesIn(Tail(records), set)

\* handle_book_list on the datastore file: the list it prints. With --jsonpath,
\* matched are the records the expression selects.
ListCommand(file, jsonpath, matched, status, year) ==
    LET records == Loaded(file)
        by_status == IF status # None THEN FilterBy(records, "status", status)
                     ELSE records
        by_year == IF year # NoneInt THEN FilterBy(by_status, "source_year", year)
                   ELSE by_status
    IN  ListSorted(IF jsonpath THEN EntriesIn(records, matched) ELSE by_year)

\* handle_book_show: it prints the matched payloads, an error for a command
\* line with neither --jsonpath nor both --year and --id, or that nothing matches
HandleBookShow(jsonpath, matched, year, id) ==
    /\ run.pc = "idle"
    /\ LET state == Loaded(disk)
           key == BookKey(year, id)
       IN  IF jsonpath
           THEN /\ matched \subseteq Keys(state)
                /\ last' = IF matched = {} THEN "noop" ELSE "other"
           ELSE /\ matched = {}
                /\ last' = IF year = NoneInt \/ id = NoneInt THEN "noop"
                           ELSE IF key \notin Keys(state) THEN "noop"
                           ELSE "other"
    /\ UNCHANGED <<disk, files, clock, run, fs>>

\* time passes, between commands and while a lookup is under way
Tick ==
    /\ clock < MaxTime
    /\ run.pc \in {"idle", "lookup"}
    /\ clock' = clock + 1
    /\ UNCHANGED <<disk, files, run, last, fs>>

(***************************************************************************)
(* The program                                                             *)
(***************************************************************************)
Init ==
    /\ disk = << >>
    /\ files = {}
    /\ clock = 0
    /\ run = Idle
    /\ last = "other"
    /\ fs = [path |-> Missing, tmp |-> Missing]

Next ==
    \/ \E year \in YearOpts : \E online \in OnlineOpts(year) :
          HandleInit(year, online)
    \/ \E args \in AcquireArgs : \E online \in OnlineOpts(args.year) :
          HandleBookAcquire(args.year, args.status, args.id, args.limit,
                            args.max_attempts, args.dry_run, online)
    \/ NextRecord
    \/ \E result \in LookupResults : LookupReturns(result)
    \/ Kill
    \/ \E matched \in SUBSET Keys(disk) :
          HandleBookReset(TRUE, matched, NoneInt, NoneInt)
    \/ \E args \in ResetArgs :
          HandleBookReset(FALSE, {}, args.year, args.id)
    \/ Tick

Spec == Init /\ [][Next]_vars

\* the acquire command lines of the runs in which search_book may raise
ErrAcquireArgs ==
    { DefaultArgs,
      [DefaultArgs EXCEPT !.max_attempts = 1],
      [DefaultArgs EXCEPT !.year = FIRST_YEAR + 1, !.id = 2, !.max_attempts = 2],
      [DefaultArgs EXCEPT !.dry_run = TRUE] }

\* the program with lookups that may raise as well as return
NextErr ==
    \/ \E year \in YearOpts : \E online \in OnlineOpts(year) :
          HandleInit(year, online)
    \/ \E args \in ErrAcquireArgs : \E online \in OnlineOpts(args.year) :
          HandleBookAcquire(args.year, args.status, args.id, args.limit,
                            args.max_attempts, args.dry_run, online)
    \/ NextRecord
    \/ \E result \in LookupOutcomes : LookupReturns(result)
    \/ Kill
    \/ \E matched \in SUBSET Keys(disk) :
          HandleBookReset(TRUE, matched, NoneInt, NoneInt)
    \/ \E args \in ResetArgs :
          HandleBookReset(FALSE, {}, args.year, args.id)
    \/ Tick

SpecErr == Init /\ [][NextErr]_vars

\* the commands of the CLI that read or change the datastore, book show
\* included, run one after another with the clock standing still
NextCli ==
    \/ \E year \in YearOpts : \E online \in OnlineOpts(year) :
          HandleInit(year, online)
    \/ \E args \in AcquireArgs : \E online \in OnlineOpts(args.year) :
          HandleBookAcquire(args.year, args.status, args.id, args.limit,
                            args.max_attempts, args.dry_run, online)
    \/ NextRecord
    \/ \E result \in LookupResults : LookupReturns(result)
    \/ Kill
    \/ \E matched \in SUBSET Keys(disk) :
          HandleBookReset(TRUE, matched, NoneInt, NoneInt)
    \/ \E args \in ResetArgs :
          HandleBookReset(FALSE, {}, args.year, args.id)
    \/ \E matched \in SUBSET Keys(disk) :
          HandleBookShow(TRUE, matched, NoneInt, NoneInt)
    \/ \E args \in ResetArgs :
          HandleBookShow(FALSE, {}, args.year, args.id)

SpecCli == Init /\ [][NextCli]_vars

(***************************************************************************)
(* The program at the level of one load and one save: a process loads the  *)
(* datastore file, then saves a dict with save_state_atomic step by step,  *)
(* and may be killed at any point.                                         *)
(***************************************************************************)
\* a faulty save that writes into the datastore file itself
WriteTargetIsPath == "path"

\* save_state_atomic, line 131: the file json.dump writes into
WriteTarget == "tmp"

\* dicts a command saves
Snapshots ==
    LET one == SeedYears(<< >>, {FIRST_YEAR}, AvailableYears)
        two == SeedYears(<< >>, AvailableYears, AvailableYears)
        key == BookKey(FIRST_YEAR, 1)
        marked == MarkInProgress(FromState(key, Get(two, key)), 0)
        tracked == MarkTracked(marked, "book", "gr-1", "{title}", 0)
    IN  { << >>, one, two, Put(two, key, ToState(marked)), Put(two, key, ToState(tracked)) }

\* what a command may find at STATE_PATH: no file, an unreadable file, a saved
\* dict, an empty file, a truncated JSON text, and a JSON text that is a list
InitialFiles ==
    { Missing, Unreadable, TextFile(<< >>),
      TextFile(<< OpenBrace >>),
      TextFile(<< OpenBracket, CloseBracket >>) }
    \cup { SaveStateAtomic(state) : state \in Snapshots }

\* the process inside load_state / save_state_atomic: state is its dict, old the
\* datastore file as it was when the save began, written the tokens dumped
Proc(pc, state, old, written) ==
    [pc |-> pc, state |-> state, old |-> old, written |-> written]

ProcIdle == Proc("idle", << >>, Missing, 0)

\* load_state(), lines 117-126
LoadStep ==
    /\ run.pc = "idle"
    /\ LET r == LoadState(fs.path)
       IN  run' = IF r.raised THEN Proc("raised", << >>, Missing, 0)
                  ELSE Proc("loaded", r.state, Missing, 0)
    /\ UNCHANGED <<disk, files, clock, last, fs>>

\* the exception of load_state ends the process
RaisedExit ==
    /\ run.pc = "raised"
    /\ run' = ProcIdle
    /\ UNCHANGED <<disk, files, clock, last, fs>>

\* save_state_atomic(state), lines 130-132: the command has made its dict
\* state, and tmp.open("w") creates or truncates the file written
SaveOpen(state) ==
    /\ run.pc = "loaded"
    /\ fs' = [fs EXCEPT ![WriteTarget] = TextFile(<< >>)]
    /\ run' = Proc("writing", state, fs.path, 0)
    /\ UNCHANGED <<disk, files, clock, last>>

\* save_state_atomic, line 133: json.dump writes the next token
SaveWrite ==
    /\ run.pc = "writing"
    /\ run.written < Len(JsonDump(run.state))
    /\ fs' = [fs EXCEPT ![WriteTarget] =
                 TextFile(Append(fs[WriteTarget].text, JsonDump(run.state)[run.written + 1]))]
    /\ run' = [run EXCEPT !.written = run.written + 1]
    /\ UNCHANGED <<disk, files, clock, last>>

\* save_state_atomic, line 134: the file is closed and tmp.replace(path)
\* renames it over the datastore file; the command ends
SaveReplace ==
    /\ run.pc = "writing"
    /\ run.written = Len(JsonDump(run.state))
    /\ fs' = [path |-> fs[WriteTarget], tmp |-> Missing]
    /\ run' = ProcIdle
    /\ UNCHANGED <<disk, files, clock, last>>

\* the process is killed; the files stay as they are
KillProc ==
    /\ run.pc \in {"loaded", "writing"}
    /\ run' = ProcIdle
    /\ UNCHANGED <<disk, files, clock, last, fs>>

InitFile ==
    /\ disk = << >>
    /\ files = {}
    /\ clock = 0
    /\ last = "other"
    /\ run = ProcIdle
    /\ fs \in { [path |-> file, tmp |-> Missing] : file \in InitialFiles }

NextFile ==
    \/ LoadStep
    \/ RaisedExit
    \/ \E state \in Snapshots : SaveOpen(state)
    \/ SaveWrite
    \/ SaveReplace
    \/ KillProc

SpecFile == InitFile /\ [][NextFile]_vars

(***************************************************************************)
(* The functions of datastore.py, each called once on an argument          *)
(***************************************************************************)
MaxBackoffInput == 6    \* _backoff_for_attempt is called with 0..MaxBackoffInput

\* the BookRecords of a seeded book, in every status and with every attempts,
\* timestamps, error and remote fields within the bounds
InputRecords(seeded) ==
    LET stamps == {NoneInt} \cup 0..MaxTime
    IN  { [seeded EXCEPT !.status = status,
                         !.attempts = attempts,
                         !.last_attempt_at = last_attempt_at,
                         !.next_retry_at = next_retry_at,
                         !.last_error = last_error,
                         !.remote_tracked = (api_id # None),
                         !.remote_entity_type = IF api_id # None THEN "book" ELSE None,
                         !.remote_api_id = api_id] :
            status \in StatusMembers, attempts \in 0..MaxAttempts,
            last_attempt_at \in stamps, next_retry_at \in stamps,
            last_error \in {None, "not found"}, api_id \in {None, "gr-1"} }

\* a call of function fn on arg, and its return
Call(fn, arg) == [pc |-> "call", fn |-> fn, arg |-> arg]
Return(value) == [pc |-> "return", fn |-> run.fn, arg |-> run.arg, value |-> value]

\* the State dicts saved and loaded: one of the records alone, and after or
\* before the seeded record other
InputStates(records, other) ==
    LET entry(record) == [key |-> record.key, payload |-> ToState(record)]
    IN  { << >> }
        \cup { << entry(record) >> : record \in records }
        \cup { << entry(record), entry(other) >> : record \in records }
        \cup { << entry(other), entry(record) >> : record \in records }

\* book reset command lines, each with the datastore file it finds
ResetCommands(states) ==
    UNION { { [file |-> state, jsonpath |-> TRUE, matched |-> matched,
               year |-> NoneInt, id |-> NoneInt] : matched \in SUBSET Keys(state) }
            \cup { [file |-> state, jsonpath |-> FALSE, matched |-> {},
                    year |-> args.year, id |-> args.id] : args \in ResetArgs } :
            state \in states }

\* stores of three books, two of them of one year, in every insertion order and
\* with every book in one of two statuses
ListStates(both) ==
    LET book(year, id, title, status) ==
            [ key |-> BookKey(year, id),
              payload |-> ToState([NewBookRecord(year, [id |-> id, title |-> title,
                                                        author |-> "Butler", cover |-> None])
                                     EXCEPT !.status = status]) ]
        a(status) == book(FIRST_YEAR, 1, "Kindred", status)
        b(status) == book(FIRST_YEAR, 3, "Dawn", status)
        c(status) == book(FIRST_YEAR + 1, 2, "Fledgling", status)
    IN  UNION { { << a(x), b(y), c(z) >>, << a(x), c(z), b(y) >>, << b(y), a(x), c(z) >>,
                  << b(y), c(z), a(x) >>, << c(z), a(x), b(y) >>, << c(z), b(y), a(x) >> } :
                x \in both, y \in both, z \in both }

\* book list command lines, each with the datastore file it finds
ListCommands(states) ==
    UNION { { [file |-> state, jsonpath |-> FALSE, matched |-> {},
               status |-> status, year |-> year] :
                 status \in {None, "pending", "tracked"},
                 year \in {NoneInt, FIRST_YEAR, FIRST_YEAR + 1} }
            \cup { [file |-> state, jsonpath |-> TRUE, matched |-> matched,
                    status |-> status, year |-> NoneInt] :
                 matched \in SUBSET Keys(state), status \in {None, "tracked"} }
            \cup { [file |-> state, jsonpath |-> TRUE, matched |-> matched,
                    status |-> None, year |-> FIRST_YEAR + 1] :
                 matched \in SUBSET Keys(state) } :
            state \in states }

\* the --status values given to acquire: none, each status value, and two
\* strings that are no status value
StatusFilters == {None, "bogus", ""} \cup { StatusValue(s) : s \in StatusMembers }

\* acquire --year --id command lines for the record of the first year, each
\* with the datastore file it finds, the record alone or after another, and
\* the run's now
SingleCommands(records, other) ==
    LET entry(record) == [key |-> record.key, payload |-> ToState(record)]
    IN  { [file |-> file, year |-> FIRST_YEAR, id |-> 1, status |-> status, now |-> now] :
              file \in { << entry(record) >> : record \in records }
                       \cup { << entry(other), entry(record) >> : record \in records },
              status \in StatusFilters,
              now \in 0..MaxTime }

\* the calls made: every function on each of its arguments
Calls(records, states) ==
    { Call("_backoff_for_attempt", attempts) : attempts \in 0..MaxBackoffInput }
    \cup { Call("reset_record", record) : record \in records }
    \cup { Call("to_state, from_state", record) : record \in records }
    \cup { Call("save_state_atomic, load_state", state) : state \in states }
    \cup { Call("handle_book_reset", cmd) : cmd \in ResetCommands(states) }
    \cup { Call("handle_book_list", cmd) :
               cmd \in ListCommands(ListStates({PENDING, TRACKED})) }

\* track_books(year, book_id=id, status=status) up to its lookup, and
\* list(iter_pending(state, now=now, year=year, status=status)) on the dict
\* that track_books has loaded and seeded: whether the one goes on to look the
\* record up, whether the other yields it
CallSingleAndIterPending ==
    /\ run.pc = "call"
    /\ run.fn = "track_books, iter_pending"
    /\ LET cmd == run.arg
           state == SeedYears(Loaded(cmd.file), TargetYears(cmd.year), AvailableYears)
           started == TrackBooksStart(cmd.file, AvailableYears, cmd.now, cmd.year,
                                      cmd.status, cmd.id, DefaultArgs.limit,
                                      DefaultArgs.max_attempts, FALSE)
           yielded == IterPending(state, cmd.now, NoneInt, cmd.year, cmd.status)
       IN  run' = Return([ single |-> started.run.pc = "lookup",
                           iter |-> \E i \in 1..Len(yielded) :
                                        yielded[i] = BookKey(cmd.year, cmd.id) ])
    /\ UNCHANGED <<disk, files, clock, last, fs>>

CallBackoffForAttempt ==
    /\ run.pc = "call"
    /\ run.fn = "_backoff_for_attempt"
    /\ run' = Return(BackoffForAttempt(run.arg))
    /\ UNCHANGED <<disk, files, clock, last, fs>>

CallResetRecord ==
    /\ run.pc = "call"
    /\ run.fn = "reset_record"
    /\ run' = Return(ResetRecord(run.arg))
    /\ UNCHANGED <<disk, files, clock, last, fs>>

\* BookRecord.from_state(record.key, record.to_state())
CallToStateFromState ==
    /\ run.pc = "call"
    /\ run.fn = "to_state, from_state"
    /\ run' = Return(FromState(run.arg.key, ToState(run.arg)))
    /\ UNCHANGED <<disk, files, clock, last, fs>>

\* save_state_atomic(state) and then load_state()
CallSaveLoad ==
    /\ run.pc = "call"
    /\ run.fn = "save_state_atomic, load_state"
    /\ LET loaded == LoadState(SaveStateAtomic(run.arg))
       IN  run' = Return(IF loaded.raised THEN "AttributeError" ELSE loaded.state)
    /\ UNCHANGED <<disk, files, clock, last, fs>>

CallHandleBookReset ==
    /\ run.pc = "call"
    /\ run.fn = "handle_book_reset"
    /\ run' = Return(ResetCommand(run.arg.file, run.arg.jsonpath, run.arg.matched,
                                  run.arg.year, run.arg.id))
    /\ UNCHANGED <<disk, files, clock, last, fs>>

CallHandleBookList ==
    /\ run.pc = "call"
    /\ run.fn = "handle_book_list"
    /\ run' = Return(ListCommand(run.arg.file, run.arg.jsonpath, run.arg.matched,
                                 run.arg.status, run.arg.year))
    /\ UNCHANGED <<disk, files, clock, last, fs>>

InitCalls ==
    /\ disk = << >>
    /\ files = {}
    /\ clock = 0
    /\ last = "other"
    /\ fs = [path |-> Missing, tmp |-> Missing]
    /\ LET records == InputRecords(NewBookRecord(FIRST_YEAR, YearJson(FIRST_YEAR)[1]))
           other == NewBookRecord(FIRST_YEAR + 1, YearJson(FIRST_YEAR + 1)[1])
       IN  run \in Calls(records, InputStates(records, other))
                   \cup { Call("track_books, iter_pending", cmd) :
                              cmd \in SingleCommands(records, other) }

NextCalls ==
    \/ CallBackoffForAttempt
    \/ CallResetRecord
    \/ CallToStateFromState
    \/ CallSaveLoad
    \/ CallHandleBookReset
    \/ CallHandleBookList
    \/ CallSingleAndIterPending

SpecCalls == InitCalls /\ [][NextCalls]_vars

(***************************************************************************)
(* The program on a datastore file edited by hand                          *)
(***************************************************************************)
\* the payload without its "status" member
WithoutStatus(payload) == [ f \in DOMAIN payload \ {"status"} |-> payload[f] ]

\* datastore files of the two seeded books in which the first record's status
\* is not a status value or is missing, the second's is "pending" or not a
\* status value
ForeignStores ==
    LET seeded == SeedYears(<< >>, AvailableYears, AvailableYears)
        first == seeded[1]
        second == seeded[2]
    IN  { << [first EXCEPT !.payload = p], [second EXCEPT !.payload = q] >> :
            p \in { [first.payload EXCEPT !.status = "archived"],
                    WithoutStatus(first.payload) },
            q \in { second.payload, [second.payload EXCEPT !.status = "done"] } }

\* the book acquire command lines run on such a file
ForeignAcquireArgs ==
    { DefaultArgs,
      [DefaultArgs EXCEPT !.limit = 1],
      [DefaultArgs EXCEPT !.status = "pending", !.max_attempts = 1],
      [DefaultArgs EXCEPT !.year = FIRST_YEAR, !.id = 1] }

InitForeign ==
    /\ disk \in ForeignStores
    /\ files = AvailableYears
    /\ clock = 0
    /\ run = Idle
    /\ last = "other"
    /\ fs = [path |-> Missing, tmp |-> Missing]

NextForeign ==
    \/ \E args \in ForeignAcquireArgs :
          HandleBookAcquire(args.year, args.status, args.id, args.limit,
                            args.max_attempts, args.dry_run, TRUE)
    \/ NextRecord
    \/ \E result \in LookupResults : LookupReturns(result)
    \/ Kill
    \/ \E args \in ResetArgs :
          HandleBookReset(FALSE, {}, args.year, args.id)
    \/ Tick

SpecForeign == InitForeign /\ [][NextForeign]_vars

(***************************************************************************)
(* Properties                                                              *)
(***************************************************************************)
\* the persisted status string of the record under key k
StatusAt(state, k) == Get(state, k).status

\* a record as ensure_book_entry creates it
Fresh(payload) ==
    /\ payload.status = "pending"
    /\ payload.attempts = 0
    /\ payload.last_attempt_at = << >>
    /\ payload.next_retry_at = << >>
    /\ payload.last_error = None
    /\ payload.remote.tracked = FALSE
    /\ payload.remote.api_id = None

\* the step is a book reset that reset records
ResetStep == last' = "reset" /\ run.pc = "idle" /\ clock' = clock

\* the step is a whole acquire --dry-run command
DryRunStep == last' = "dry_run" /\ run.pc = "idle" /\ clock' = clock

\* the status changes of the lifecycle table
LifecycleChange(a, b) ==
    << a, b >> \in { << "pending", "in_progress" >>, << "failed", "in_progress" >>,
                     << "in_progress", "tracked" >>, << "in_progress", "failed" >> }

\* C1 (as claimed): every change of a record's persisted status is PENDING ->
\* IN_PROGRESS, FAILED -> IN_PROGRESS, IN_PROGRESS -> TRACKED, IN_PROGRESS ->
\* FAILED, or any status -> PENDING by an explicit reset.
C1_OnlyLifecycleChanges ==
    [][ \A k \in Keys(disk) :
          LET a == StatusAt(disk, k)
              b == StatusAt(disk', k)
          IN  a # b => \/ LifecycleChange(a, b)
                       \/ b = "pending" /\ ResetStep ]_vars

\* C1 (amended): every change of a record's persisted status is one of the
\* four lifecycle changes, any status -> PENDING by an explicit reset, or
\* TRACKED -> IN_PROGRESS by an acquire run given the status filter tracked.
C1_LifecycleOrTrackedFilter ==
    [][ \A k \in Keys(disk) :
          LET a == StatusAt(disk, k)
              b == StatusAt(disk', k)
          IN  a # b => \/ LifecycleChange(a, b)
                       \/ b = "pending" /\ ResetStep
                       \/ /\ a = "tracked" /\ b = "in_progress"
                          /\ run'.status = "tracked" /\ run'.key = k ]_vars

\* C1 witness: an acquire --status tracked has taken a TRACKED record to
\* IN_PROGRESS and is looking it up
C1_Witness ==
    /\ run.pc = "lookup"
    /\ run.status = "tracked"
    /\ StatusAt(disk, run.key) = "in_progress"

\* a record that exhausted its retries: FAILED with next_retry_at absent
Exhausted(payload) == payload.status = "failed" /\ payload.next_retry_at = << >>

\* C2 (as claimed): once a failed lookup has left a record FAILED with
\* next_retry_at absent, nothing but an explicit reset changes the record: no
\* later acquire run selects it.
C2_ExhaustedNeverSelected ==
    [][ \A k \in Keys(disk) :
          Exhausted(Get(disk, k)) =>
              \/ Get(disk', k) = Get(disk, k)
              \/ ResetStep ]_vars

\* C3 (as claimed): in every persisted state next_retry_at is present only if
\* status is FAILED.
C3_RetryOnlyWhenFailed ==
    \A k \in Keys(disk) :
        Get(disk, k).next_retry_at # << >> => StatusAt(disk, k) = "failed"

\* C4 (as claimed): an acquire run without a single-record key hands at most
\* limit records to the lookup.
C4_AtMostLimitLookups ==
    (run.pc # "idle" /\ run.book_id = NoneInt) => run.count <= run.limit

\* C5 (as claimed): a dry run leaves the persisted store identical and makes no
\* lookup.
C5_DryRunChangesNothing ==
    [][ DryRunStep => disk' = disk /\ run'.pc = "idle" ]_vars

\* C5 (amended): a dry run makes no lookup and changes no existing record: the
\* store afterwards is the store before, in the same order, followed by the
\* records the seeding phase added, each PENDING with attempts 0.
C5_DryRunOnlySeeds ==
    [][ DryRunStep =>
          /\ run'.pc = "idle"
          /\ Len(disk') >= Len(disk)
          /\ SubSeq(disk', 1, Len(disk)) = disk
          /\ \A i \in (Len(disk) + 1)..Len(disk') : Fresh(disk'[i].payload) ]_vars

\* C5 witness: a dry run has just run on a store that holds a FAILED record
C5_Witness ==
    /\ last = "dry_run"
    /\ \E k \in Keys(disk) : StatusAt(disk, k) = "failed"

\* the books a seeding call may be given: every book of every yearly JSON
SeedBooks == UNION { { YearJson(y)[i] : i \in 1..Len(YearJson(y)) } : y \in AvailableYears }

\* C6: ensure_book_entry, applied to any reachable store with any year and
\* book, appends a PENDING record with attempts 0 under key (year, id) when the
\* key is absent and returns the store unchanged when it is present; and the
\* seeding done by init or by the seeding phase of acquire changes no field of
\* an existing record.
C6_SeedingIsIdempotent ==
    /\ [] ( \A year \in AvailableYears : \A book \in SeedBooks :
              LET key == BookKey(year, book.id)
                  after == EnsureBookEntry(disk, year, book)
              IN  /\ key \in Keys(disk) => after = disk
                  /\ key \notin Keys(disk) =>
                       /\ Len(after) = Len(disk) + 1
                       /\ SubSeq(after, 1, Len(disk)) = disk
                       /\ after[Len(after)].key = key
                       /\ after[Len(after)].payload.status = "pending"
                       /\ after[Len(after)].payload.attempts = 0
                  /\ EnsureBookEntry(after, year, book) = after )
    /\ [][ (run.pc = "idle" /\ ~ResetStep) =>
             \A k \in Keys(disk) :
                 \/ Get(disk', k) = Get(disk, k)
                 \/ run'.pc = "lookup" /\ run'.key = k ]_vars

\* C6 witness: an acquire run has just seeded again over a store that holds a
\* TRACKED record and a record with failed attempts
C6_Witness ==
    /\ run.pc = "iter"
    /\ run.count = 0
    /\ \E k \in Keys(disk) : StatusAt(disk, k) = "tracked"
    /\ \E k \in Keys(disk) : Get(disk, k).attempts > 0

\* C7: a record's status becomes TRACKED only in the step in which its lookup
\* returns found; and a TRACKED record is changed only by an explicit reset or
\* by an acquire run given an explicit status filter, never by a run with the
\* default filter.
C7_TrackedOnlyByLookup ==
    [][ \A k \in Keys(disk) :
          /\ (StatusAt(disk, k) # "tracked" /\ StatusAt(disk', k) = "tracked") =>
                 /\ run.pc = "lookup" /\ run.key = k
                 /\ \E result \in LookupOutcomes :
                        result.found /\ LookupReturns(result)
          /\ (StatusAt(disk, k) = "tracked" /\ Get(disk', k) # Get(disk, k)) =>
                 \/ ResetStep
                 \/ run'.status # None ]_vars

\* C7 witness: a run with the default filter has passed over a TRACKED record
\* and is looking up a later one
C7_Witness ==
    /\ run.pc = "lookup"
    /\ run.status = None
    /\ \E k \in Keys(disk) :
          /\ StatusAt(disk, k) = "tracked"
          /\ IndexOf(disk, k) < IndexOf(disk, run.key)

\* C8: a record's attempts counter changes only by going up by exactly 1 in the
\* step in which its lookup fails (not found, or an error raised), or by being
\* set to 0 by an explicit reset; every failing lookup raises it by 1, and a
\* successful lookup leaves it unchanged.
C8_AttemptsChanges ==
    [][ /\ \A k \in Keys(disk) :
              Get(disk', k).attempts # Get(disk, k).attempts =>
                  \/ /\ Get(disk', k).attempts = Get(disk, k).attempts + 1
                     /\ run.pc = "lookup" /\ run.key = k
                     /\ \E result \in LookupOutcomes :
                            ~IsTracked(result) /\ LookupReturns(result)
                  \/ /\ Get(disk', k).attempts = 0
                     /\ ResetStep
        /\ \A result \in LookupOutcomes :
              LookupReturns(result) =>
                  Get(disk', run.key).attempts =
                      Get(disk, run.key).attempts + (IF IsTracked(result) THEN 0 ELSE 1)
      ]_vars

\* C8 witness: a record has failed twice, the last time by a raised error, and
\* another has been tracked after a failed attempt
C8_Witness ==
    /\ \E k \in Keys(disk) :
          Get(disk, k).attempts = 2 /\ Get(disk, k).last_error = ConfigError
    /\ \E k \in Keys(disk) :
          Get(disk, k).attempts = 1 /\ StatusAt(disk, k) = "tracked"

\* the --status values iter_pending may be given, a value outside Status included
StatusOpts == {None, "pending", "in_progress", "tracked", "failed", "bogus"}

\* the times at which eligibility is evaluated: the present time and the
\* neighbourhood of every next_retry_at in the store
Times(state) ==
    {clock} \cup
    UNION { { t - 1, t, t + 1 } :
            t \in { state[i].payload.next_retry_at[1] :
                    i \in { j \in 1..Len(state) : state[j].payload.next_retry_at # << >> } } }

\* the eligibility of a persisted record, as claimed
Eligible(payload, now, year, status) ==
    /\ IF status = None THEN payload.status \in {"pending", "failed"}
       ELSE payload.status = status
    /\ \/ payload.status # "failed"
       \/ payload.next_retry_at = << >>
       \/ payload.next_retry_at[1] <= now
    /\ year = NoneInt \/ payload.source_year = year

\* the keys of the eligible records of state, in the dict's order
RECURSIVE EligibleKeys(_, _, _, _)
EligibleKeys(state, now, year, status) ==
    IF state = << >> THEN << >>
    ELSE (IF Eligible(Head(state).payload, now, year, status)
          THEN << Head(state).key >> ELSE << >>)
         \o EligibleKeys(Tail(state), now, year, status)

\* the first position from pos on whose record is eligible, 0 when there is none
FirstEligible(state, pos, now, year, status) ==
    LET ok == { p \in pos..Len(state) : Eligible(state[p].payload, now, year, status) }
    IN  IF ok = {} THEN 0 ELSE CHOOSE p \in ok : \A q \in ok : p <= q

\* C9: for every store a command finds on disk, every time, year filter and
\* status filter, iter_pending (no limit) yields exactly the records whose
\* status is PENDING or FAILED (no filter) or equals the filter, that are not
\* FAILED with next_retry_at > now, and that match the year filter, so that a
\* FAILED record is yielded from now = next_retry_at on; and the generator of a
\* running acquire loop, until its limit ends it, yields next the next such
\* record.
C9_YieldsExactlyEligible ==
    /\ run.pc = "idle" =>
         \A now \in Times(disk) : \A year \in YearOpts : \A status \in StatusOpts :
             IterPending(disk, now, NoneInt, year, status)
                 = EligibleKeys(disk, now, year, status)
    /\ (run.pc = "iter" /\ (run.count = 0 \/ run.count < run.limit)) =>
         NextYield(disk, run.pos, run.count, run.now, run.limit, run.year, run.status)
             = FirstEligible(disk, run.pos, run.now, run.year, run.status)

\* C9 witness: a FAILED record whose next_retry_at is the present time, which
\* iter_pending yields now and did not yield one time unit earlier
C9_Witness ==
    \E i \in 1..Len(disk) :
        /\ disk[i].payload.status = "failed"
        /\ disk[i].payload.next_retry_at = << clock >>
        /\ \E j \in 1..Len(IterPending(disk, clock, NoneInt, NoneInt, None)) :
              IterPending(disk, clock, NoneInt, NoneInt, None)[j] = disk[i].key
        /\ \A j \in 1..Len(IterPending(disk, clock - 1, NoneInt, NoneInt, None)) :
              IterPending(disk, clock - 1, NoneInt, NoneInt, None)[j] # disk[i].key

\* C10: while a lookup is under way the persisted store holds its record in
\* status IN_PROGRESS with last_attempt_at the run's now, and killing the
\* process during the lookup leaves the persisted record IN_PROGRESS.
C10_InProgressPersistedBeforeLookup ==
    /\ [] ( run.pc = "lookup" =>
              /\ run.key \in Keys(disk)
              /\ StatusAt(disk, run.key) = "in_progress"
              /\ Get(disk, run.key).last_attempt_at = IsoFormat(run.now)
              /\ Get(disk, run.key) = ToState(run.rec) )
    /\ [][ (run.pc = "lookup" /\ Kill) =>
              StatusAt(disk', run.key) = "in_progress" ]_vars

\* C10 witness: no process is running and a record is IN_PROGRESS: its run was
\* killed during the lookup
C10_Witness ==
    /\ run.pc = "idle"
    /\ \E k \in Keys(disk) : StatusAt(disk, k) = "in_progress"

\* a FAILED record whose retry time has come
RetryDue(payload, now) ==
    /\ payload.status = "failed"
    /\ payload.next_retry_at # << >>
    /\ payload.next_retry_at[1] <= now

\* the members of a sequence
Range(seq) == { seq[i] : i \in 1..Len(seq) }

\* C11 (as claimed, the retry of a FAILED record whose retry time has come not
\* counted as redoing it): when an acquire loop has fully processed k records
\* and may be killed, the persisted store holds the TRACKED or FAILED outcome
\* of each of them, and an acquire run started now on that store would not
\* select any of them again.
C11_OutcomesKeptAndNotRedone ==
    (run.pc = "iter" /\ run.book_id = NoneInt) =>
        \A i \in 1..run.processed :
            LET k == run.plan[i]
            IN  /\ StatusAt(disk, k) \in {"tracked", "failed"}
                /\ k \in Range(IterPending(disk, clock, NoneInt, NoneInt, None))
                       => RetryDue(Get(disk, k), clock)

\* the lookup's answer is found with a non-empty api_id and an entity_type
FoundWithId(result) ==
    /\ result.kind = "result"
    /\ result.found = TRUE
    /\ result.api_id # None /\ result.api_id # ""
    /\ result.entity_type # None /\ result.entity_type # ""

\* C12: when the lookup returns found with a non-empty api_id and an
\* entity_type, the persisted record becomes TRACKED with remote.tracked true
\* and remote.api_id, remote.entity_type and remote.extra those of the
\* response, next_retry_at and last_error absent and every other field but
\* last_attempt_at (attempts among them) unchanged; a response with found true
\* and an empty api_id is recorded as the failure "not found".
C12_FoundBecomesTracked ==
    [][ \A result \in LookupResults :
          LookupReturns(result) =>
              LET before == Get(disk, run.key)
                  after == Get(disk', run.key)
              IN  IF FoundWithId(result)
                  THEN after = [before EXCEPT
                                  !.status = "tracked",
                                  !.remote = [tracked |-> TRUE,
                                              entity_type |-> result.entity_type,
                                              api_id |-> result.api_id,
                                              extra |-> result.extra],
                                  !.next_retry_at = << >>,
                                  !.last_error = None,
                                  !.last_attempt_at = << run.now >>]
                  ELSE /\ after.status = "failed"
                       /\ after.last_error = "not found"
                       /\ after.attempts = before.attempts + 1
                       /\ after.remote = before.remote ]_vars

\* C12 witness: a record that had failed once, with a retry time, has been
\* TRACKED from a response
C12_Witness ==
    \E k \in Keys(disk) :
        /\ StatusAt(disk, k) = "tracked"
        /\ Get(disk, k).attempts = 1
        /\ Get(disk, k).remote = [tracked |-> TRUE, entity_type |-> "book",
                                  api_id |-> "gr-1", extra |-> "{title}"]
        /\ Get(disk, k).next_retry_at = << >>
        /\ Get(disk, k).last_error = None

\* the backoff delay of the n-th attempt as claimed, in units of 15 minutes:
\* 15 minutes, 1 hour, 6 hours, then 24 hours
ClaimedBackoff(n) ==
    CASE n = 1 -> 1
      [] n = 2 -> 4
      [] n = 3 -> 24
      [] n >= 4 -> 96

\* C13: when the lookup returns not found or raises, the persisted record
\* becomes FAILED with attempts one more, last_error the failure's message and
\* next_retry_at = now + backoff(new attempts), or absent when new attempts >=
\* max_attempts, now being the run's now; and mark_failed_with_backoff gives
\* that result for every attempts 0..5 and max_attempts 1..6, attempts 4 with
\* max_attempts 5 among them.
C13_FailureBecomesFailed ==
    /\ [][ \A result \in LookupOutcomes :
             (~FoundWithId(result) /\ LookupReturns(result)) =>
                 LET before == Get(disk, run.key)
                     after == Get(disk', run.key)
                     attempts == before.attempts + 1
                 IN  after = [before EXCEPT
                                !.status = "failed",
                                !.attempts = attempts,
                                !.last_error = IF result.kind = "raise"
                                               THEN result.extra ELSE "not found",
                                !.last_attempt_at = << run.now >>,
                                !.next_retry_at =
                                    IF attempts >= run.max_attempts THEN << >>
                                    ELSE << run.now + ClaimedBackoff(attempts) >>] ]_vars
    /\ [] ( run.pc = "lookup" =>
              \A a \in 0..5 : \A m \in 1..6 :
                  LET r == MarkFailedWithBackoff([run.rec EXCEPT !.attempts = a],
                                                 "not found", m, run.now)
                  IN  /\ r.status = FAILED
                      /\ r.attempts = a + 1
                      /\ r.last_error = "not found"
                      /\ r.next_retry_at = IF a + 1 >= m THEN NoneInt
                                           ELSE run.now + ClaimedBackoff(a + 1) )

\* C13 witness: one record has failed by a raised error and waits for its
\* retry time, another has failed not found and has no retry time
C13_Witness ==
    /\ \E k \in Keys(disk) :
          /\ StatusAt(disk, k) = "failed"
          /\ Get(disk, k).last_error = ConfigError
          /\ Get(disk, k).attempts = 1
          /\ Get(disk, k).next_retry_at # << >>
    /\ \E k \in Keys(disk) :
          /\ StatusAt(disk, k) = "failed"
          /\ Get(disk, k).last_error = "not found"
          /\ Get(disk, k).next_retry_at = << >>

\* C14: a lookup that returns not found or raises in the acquire loop is
\* recorded on its record as FAILED and leaves the run in its loop, the
\* generator where it was; the loop then takes the next record that was eligible
\* when the run began, up to the limit, and ends normally when none is left.
C14_FailureDoesNotAbort ==
    [][ /\ \A result \in LookupOutcomes :
              (~FoundWithId(result) /\ LookupReturns(result) /\ run.book_id = NoneInt) =>
                  /\ StatusAt(disk', run.key) = "failed"
                  /\ Get(disk', run.key).last_error =
                         (IF result.kind = "raise" THEN result.extra ELSE "not found")
                  /\ run' = [run EXCEPT !.pc = "iter", !.key = NoKey, !.rec = NoRec,
                                        !.processed = run.processed + 1,
                                        !.results = run'.results]
        /\ (run.processed >= 1 /\ run.limit >= 1 /\ NextRecord) =>
              IF run.count < Len(run.plan)
              THEN run'.pc = "lookup" /\ run'.key = run.plan[run.count + 1]
              ELSE run' = Idle /\ disk' = disk ]_vars

\* C14 witness: the first lookup of a run raised, the failure is on its record,
\* and the run is looking up the next record
C14_Witness ==
    /\ run.pc = "lookup"
    /\ run.processed = 1
    /\ Len(run.plan) = 2
    /\ run.key = run.plan[2]
    /\ StatusAt(disk, run.plan[1]) = "failed"
    /\ Get(disk, run.plan[1]).last_error = ConfigError
    /\ Get(disk, run.plan[1]).last_attempt_at = << run.now >>

\* C15 (as claimed): with the API endpoint or key missing, an acquire command
\* ends with the configuration error before any record is modified: no record
\* is persisted with the configuration error as its last_error.
C15_ConfigErrorNotRecorded ==
    \A k \in Keys(disk) : Get(disk, k).last_error # ConfigError

\* C16: while save_state_atomic is writing, the datastore file is still the
\* file it was when the save began, and every step of the save, the kill
\* included, leaves at the datastore path either that file or the complete dump
\* of the new dict; load_state of it returns what the old file gave or the new
\* dict.
C16_SaveIsAtomic ==
    /\ [](run.pc = "writing" => fs.path = run.old)
    /\ [][run.pc = "writing" =>
             /\ fs'.path \in {run.old, SaveStateAtomic(run.state)}
             /\ LoadState(fs'.path) \in
                    {LoadState(run.old), [raised |-> FALSE, state |-> run.state]}]_vars

\* C16 witness: a save was killed with its temporary file half written, and the
\* datastore file still loads as a dict with records
C16_Witness ==
    /\ run.pc = "idle"
    /\ fs.tmp.kind = "file"
    /\ Len(fs.tmp.text) >= 2
    /\ JsonLoad(fs.tmp.text).kind = "error"
    /\ ~LoadState(fs.path).raised
    /\ LoadState(fs.path).state # << >>

\* C17 (as claimed): load_state never raises, whatever the datastore file is.
C17_LoadNeverRaises ==
    run.pc # "raised"

\* the keys of the records of state that are IN_PROGRESS
InProgressKeys(state) == { k \in Keys(state) : StatusAt(state, k) = "in_progress" }

\* C18: at every point where an acquire run can be killed, none of the records
\* the run has finished is IN_PROGRESS, and a step puts a record into
\* IN_PROGRESS only when a run begins the lookup of that one record; so a killed
\* run leaves at most the record it was looking up IN_PROGRESS.
C18_AtMostOneInProgress ==
    /\ [](run.pc \in {"iter", "lookup"} =>
              \A i \in 1..run.processed : StatusAt(disk, run.plan[i]) # "in_progress")
    /\ [][ /\ InProgressKeys(disk') \ InProgressKeys(disk) \subseteq
                  (IF run'.pc = "lookup" /\ run.pc # "lookup" THEN {run'.key} ELSE {})
           /\ (run.pc = "lookup" /\ disk' # disk) =>
                  run.key \notin InProgressKeys(disk') ]_vars

\* C18 witness: a run was killed during its second lookup: the first record has
\* its outcome, the second alone is IN_PROGRESS, both attempted at the same time
C18_Witness ==
    /\ run.pc = "idle"
    /\ Cardinality(InProgressKeys(disk)) = 1
    /\ \E k \in InProgressKeys(disk) : \E j \in Keys(disk) :
          /\ StatusAt(disk, j) \in {"tracked", "failed"}
          /\ IndexOf(disk, j) < IndexOf(disk, k)
          /\ Get(disk, j).last_attempt_at = Get(disk, k).last_attempt_at

\* C19: a record that is IN_PROGRESS and is not the one the running acquire is
\* looking up is selected for a lookup only by a run whose status filter is
\* in_progress, and is changed only by a reset or by such a run, whatever the
\* clock.
C19_OrphanNeverSelected ==
    [][ \A k \in InProgressKeys(disk) :
            ~(run.pc = "lookup" /\ run.key = k) =>
                /\ (run'.pc = "lookup" /\ run'.key = k) => run'.status = "in_progress"
                /\ Get(disk', k) # Get(disk, k) =>
                       \/ ResetStep
                       \/ run'.pc = "lookup" /\ run'.key = k
                              /\ run'.status = "in_progress" ]_vars

\* C19 witness: time has passed since a record was left IN_PROGRESS, and a run
\* with the default filter has gone past it and is looking up a later record
C19_Witness ==
    /\ run.pc = "lookup"
    /\ run.status = None
    /\ \E k \in InProgressKeys(disk) :
          /\ k # run.key
          /\ IndexOf(disk, k) < IndexOf(disk, run.key)
          /\ Get(disk, k).last_attempt_at # << >>
          /\ Get(disk, k).last_attempt_at[1] < run.now

\* the first n entries of seq, all of them when it has fewer
Take(seq, n) == SubSeq(seq, 1, IF n < Len(seq) THEN n ELSE Len(seq))

\* C20: an acquire loop with limit N >= 1 plans, when it begins, the first
\* min(N, M) of the M records eligible in the store it has just saved, in
\* insertion order; each resumption of its generator takes the next record of
\* that plan, and ends the run when the plan is done, every planned record then
\* TRACKED or FAILED; and no step of the run changes a record other than the
\* one it is marking or recording.
C20_FirstEligibleUpToLimit ==
    [][ /\ (run.pc = "idle" /\ run'.pc = "iter" /\ run'.limit >= 1) =>
               run'.plan = Take(EligibleKeys(disk', run'.now, run'.year, run'.status),
                                run'.limit)
        /\ (run.limit >= 1 /\ NextRecord) =>
               IF run.count < Len(run.plan)
               THEN run'.pc = "lookup" /\ run'.key = run.plan[run.count + 1]
               ELSE /\ run' = Idle
                    /\ disk' = disk
                    /\ \A i \in 1..Len(run.plan) :
                          StatusAt(disk, run.plan[i]) \in {"tracked", "failed"}
        /\ (run.pc # "idle" /\ run.book_id = NoneInt) =>
               \A k \in Keys(disk) :
                   k \notin {run.key, run'.key} => Get(disk', k) = Get(disk, k) ]_vars

\* C20 witness: a run with limit 1 found two eligible records, has recorded the
\* outcome of the first, and the second is as it was seeded
C20_Witness ==
    /\ run.pc = "iter"
    /\ run.limit = 1
    /\ run.count = 1
    /\ run.processed = 1
    /\ Len(disk) = 2
    /\ run.plan = << disk[1].key >>
    /\ disk[1].payload.status \in {"tracked", "failed"}
    /\ Fresh(disk[2].payload)
    /\ Eligible(disk[2].payload, run.now, run.year, run.status)

\* the function fn has returned
Returned(fn) == run.pc = "return" /\ run.fn = fn

\* C21: _backoff_for_attempt returns 15 minutes for attempt 1, 1 hour for
\* attempt 2, 6 hours for attempt 3 and 24 hours for every attempt from 4 on
\* (1, 4, 24 and 96 units of 15 minutes), and no smaller attempt number has a
\* longer delay.
C21_BackoffTable ==
    Returned("_backoff_for_attempt") =>
        /\ run.arg >= 1 => run.value = ClaimedBackoff(run.arg)
        /\ \A earlier \in 0..run.arg : BackoffForAttempt(earlier) <= run.value

\* C21 witness: the delay of an attempt beyond the fourth is the cap of 24 hours
C21_Witness ==
    /\ Returned("_backoff_for_attempt")
    /\ run.arg > 4
    /\ run.value = 96

\* C23: reset_record, whatever the record's status, attempts, timestamps and
\* error, leaves it PENDING with attempts 0 and with last_attempt_at,
\* next_retry_at and last_error absent.
C23_ResetClears ==
    Returned("reset_record") =>
        /\ run.value.status = PENDING
        /\ run.value.attempts = 0
        /\ run.value.last_attempt_at = NoneInt
        /\ run.value.next_retry_at = NoneInt
        /\ run.value.last_error = None

\* C23 witness: a FAILED record with attempts, both timestamps and an error
\* has been reset
C23_Witness ==
    /\ Returned("reset_record")
    /\ run.arg.status = FAILED
    /\ run.arg.attempts = MaxAttempts
    /\ run.arg.last_attempt_at # NoneInt
    /\ run.arg.next_retry_at # NoneInt
    /\ run.arg.last_error # None
    /\ run.value.status = PENDING

\* C22 (as claimed): when a lookup fails and a retry is scheduled, the
\* record's next_retry_at is the clock at the moment the failure is recorded
\* plus the backoff delay of its new attempts count.
C22_RetryFromFailureTime ==
    [][ \A result \in LookupResults :
            (LookupReturns(result) /\ Get(disk', run.key).next_retry_at # << >>) =>
                Get(disk', run.key).next_retry_at =
                    << clock + BackoffForAttempt(Get(disk', run.key).attempts) >> ]_vars

\* C24: every record of the store is under the key "{source_year}:{local_id}"
\* of its own fields and no two records share a key; and no step of init,
\* acquire or reset removes a record, moves it, or changes its key, source_year
\* or local_id.
C24_KeyIsImmutable ==
    /\ [](\A i \in 1..Len(disk) :
              /\ disk[i].key = << disk[i].payload.source_year, disk[i].payload.local_id >>
              /\ \A j \in 1..Len(disk) : disk[j].key = disk[i].key => j = i)
    /\ [][ /\ Len(disk') >= Len(disk)
           /\ \A i \in 1..Len(disk) :
                 /\ disk'[i].key = disk[i].key
                 /\ disk'[i].payload.source_year = disk[i].payload.source_year
                 /\ disk'[i].payload.local_id = disk[i].payload.local_id ]_vars

\* C24 witness: both records have been seeded, the first has been tracked by
\* an acquire and then reset, and it is still under its key
C24_Witness ==
    /\ last = "reset"
    /\ Len(disk) = 2
    /\ disk[1].key = << FIRST_YEAR, 1 >>
    /\ disk[1].payload.status = "pending"
    /\ disk[1].payload.remote.tracked
    /\ disk[2].payload.status = "failed"

\* C25: load_state after save_state_atomic(state) returns the same keys in the
\* same order with every payload equal, and from_state(key, r.to_state()) is the
\* record r with every field equal, an absent identifier, timestamp, error or
\* remote id still absent.
C25_RoundTrip ==
    /\ Returned("save_state_atomic, load_state") =>
           /\ Len(run.value) = Len(run.arg)
           /\ \A i \in 1..Len(run.arg) :
                 /\ run.value[i].key = run.arg[i].key
                 /\ run.value[i].payload = run.arg[i].payload
    /\ Returned("to_state, from_state") =>
           /\ run.value = run.arg
           /\ \A field \in {"isbn13", "goodreads_id", "last_error", "remote_api_id"} :
                 run.arg[field] = None => run.value[field] = None
           /\ \A field \in {"last_attempt_at", "next_retry_at"} :
                 (run.arg[field] = NoneInt) = (run.value[field] = NoneInt)

\* C25 witness: a record with one timestamp present and the other absent, no
\* error and no remote id has gone through to_state and from_state
C25_Witness ==
    /\ Returned("to_state, from_state")
    /\ run.arg.last_attempt_at = MaxTime
    /\ run.arg.next_retry_at = NoneInt
    /\ run.arg.last_error = None
    /\ run.arg.remote_api_id = None
    /\ run.value.last_attempt_at = MaxTime

\* C26: a step that is a book show or book reset command with neither
\* --jsonpath nor both --year and --id, or a book acquire command with --id and
\* no --year, ends as a command that did not do its work, and leaves the store,
\* the local files and the process as they were.
C26_UsageErrorChangesNothing ==
    [][ /\ \A args \in AcquireArgs : \A online \in BOOLEAN :
              ( /\ args.id # NoneInt
                /\ args.year = NoneInt
                /\ HandleBookAcquire(args.year, args.status, args.id, args.limit,
                                     args.max_attempts, args.dry_run, online) ) =>
                  last' = "noop" /\ disk' = disk /\ files' = files /\ run' = run
        /\ \A args \in ResetArgs :
              ( /\ args.year = NoneInt \/ args.id = NoneInt
                /\ \/ HandleBookReset(FALSE, {}, args.year, args.id)
                   \/ HandleBookShow(FALSE, {}, args.year, args.id) ) =>
                  last' = "noop" /\ disk' = disk /\ files' = files /\ run' = run ]_vars

\* C26 witness: only the first year has been downloaded and seeded, and the
\* last command ended without doing its work
C26_Witness ==
    /\ last = "noop"
    /\ run.pc = "idle"
    /\ files = {FIRST_YEAR}
    /\ Len(disk) = 1

\* the keys a book reset command line selects in the store it finds
Selected(cmd) ==
    IF cmd.jsonpath THEN cmd.matched
    ELSE IF cmd.year = NoneInt \/ cmd.id = NoneInt THEN {}
    ELSE { k \in Keys(cmd.file) : k = << cmd.year, cmd.id >> }

\* the payload as claimed after a reset
ClaimedReset(payload) ==
    [payload EXCEPT !.status = "pending", !.attempts = 0, !.last_attempt_at = << >>,
                    !.next_retry_at = << >>, !.last_error = None]

\* C27: a book reset command leaves in the store the same keys in the same
\* order, every selected record reset and every other record as it was; it
\* reports the selected keys and their number and saves the batch as one
\* store; and when nothing is selected it saves nothing and reports no keys.
C27_ResetFrame ==
    Returned("handle_book_reset") =>
        LET before == run.arg.file
            after == run.value.disk
            sel == Selected(run.arg)
        IN  /\ Len(after) = Len(before)
            /\ \A i \in 1..Len(before) :
                  /\ after[i].key = before[i].key
                  /\ after[i].payload = IF before[i].key \in sel
                                        THEN ClaimedReset(before[i].payload)
                                        ELSE before[i].payload
            /\ IF sel = {}
               THEN /\ run.value.op = "noop"
                    /\ run.value.out \in
                           { "No matching records found.",
                             "No datastore record found",
                             "Error: must supply either --year and --id, or --jsonpath" }
               ELSE /\ run.value.op = "reset"
                    /\ run.value.out.count = Cardinality(sel)
                    /\ Len(run.value.out.keys) = Cardinality(sel)
                    /\ Range(run.value.out.keys) = sel

\* C27 witness: of two records with attempts, the second alone was selected
\* by a JSONPath and reset, and the first is as it was
C27_Witness ==
    /\ Returned("handle_book_reset")
    /\ run.arg.jsonpath
    /\ Len(run.arg.file) = 2
    /\ run.arg.matched = { run.arg.file[2].key }
    /\ run.arg.file[2].payload.attempts > 0
    /\ run.value.disk[2].payload.attempts = 0
    /\ run.value.disk[1].payload = run.arg.file[1].payload
    /\ run.value.out.count = 1

\* the entries of the store a book list command line asks for
Listed(cmd) ==
    { cmd.file[i] : i \in
        { i \in 1..Len(cmd.file) :
            IF cmd.jsonpath THEN cmd.file[i].key \in cmd.matched
            ELSE /\ cmd.status = None \/ cmd.file[i].payload.status = cmd.status
                 /\ cmd.year = NoneInt \/ cmd.file[i].payload.source_year = cmd.year } }

\* C28: book list prints each record that matches both the status and the year
\* filter once (every record when neither is given), or with --jsonpath each
\* record the expression selects whatever --status and --year are, later
\* source_year first and, within a year, greater local_id first.
C28_ListFiltersAndSorts ==
    Returned("handle_book_list") =>
        /\ Range(run.value) = Listed(run.arg)
        /\ Len(run.value) = Cardinality(Listed(run.arg))
        /\ \A i \in 1..Len(run.value) : \A j \in 1..Len(run.value) :
              i < j =>
                  \/ run.value[i].payload.source_year > run.value[j].payload.source_year
                  \/ /\ run.value[i].payload.source_year = run.value[j].payload.source_year
                     /\ run.value[i].payload.local_id > run.value[j].payload.local_id

\* C28 witness: of three records inserted oldest year and smallest id first,
\* the two PENDING ones of the first year are listed, greater id first
C28_Witness ==
    /\ Returned("handle_book_list")
    /\ ~run.arg.jsonpath
    /\ run.arg.status = "pending"
    /\ run.arg.year = FIRST_YEAR
    /\ run.arg.file[1].key = << FIRST_YEAR, 1 >>
    /\ run.arg.file[2].key = << FIRST_YEAR, 3 >>
    /\ Len(run.value) = 2
    /\ run.value[1].key = << FIRST_YEAR, 3 >>
    /\ run.value[2].key = << FIRST_YEAR, 1 >>

\* C29 (as claimed): the results of an acquire loop hold one entry for each
\* record processed so far, in processing order, and every entry carries the
\* record's year, id, title and author, the outcome, the attempts and the
\* next_retry_at.
C29_EntryPerRecordWithAllFields ==
    run.pc \in {"iter", "lookup"} =>
        /\ Len(run.results) = run.processed
        /\ \A i \in 1..Len(run.results) :
              /\ { "source_year", "local_id", "title", "author", "status",
                   "attempts", "next_retry_at" } \subseteq DOMAIN run.results[i]
              /\ run.plan[i] = << run.results[i].source_year, run.results[i].local_id >>

\* the payload's status is missing or is not one of the four status values
UnknownStatus(payload) ==
    \/ "status" \notin DOMAIN payload
    \/ payload.status \notin {"pending", "in_progress", "tracked", "failed"}

\* C30: a persisted record whose status is missing or unknown is read by
\* from_state as PENDING, and between commands iter_pending with the default
\* filter yields it; and every step of an acquire run or a reset that writes the
\* record writes one of the four status values in place of the unknown one.
C30_UnknownStatusIsPending ==
    /\ [](\A i \in 1..Len(disk) :
              UnknownStatus(disk[i].payload) =>
                  /\ FromState(disk[i].key, disk[i].payload).status = PENDING
                  /\ run.pc = "idle" =>
                         disk[i].key \in
                             Range(IterPending(disk, clock, NoneInt, NoneInt, None)))
    /\ [][ \A i \in 1..Len(disk) :
              (UnknownStatus(disk[i].payload) /\ disk'[i].payload # disk[i].payload) =>
                  ~UnknownStatus(disk'[i].payload) ]_vars

\* C30 witness: an acquire run with the default filter has selected the first
\* record, whose status was unknown, and has written it back IN_PROGRESS, while
\* the second record still has its unknown status
C30_Witness ==
    /\ run.pc = "lookup"
    /\ run.status = None
    /\ run.book_id = NoneInt
    /\ run.key = disk[1].key
    /\ disk[1].payload.status = "in_progress"
    /\ disk[2].payload.status = "done"

\* C33 (as claimed): in every persisted state reached from the empty store by
\* init, acquire and reset commands, a record's remote.tracked is true exactly
\* when its status is TRACKED.
C33_TrackedFlagIffTracked ==
    \A i \in 1..Len(disk) :
        disk[i].payload.remote.tracked <=> disk[i].payload.status = "tracked"

\* a payload as mark_tracked leaves it
TrackedFields(payload) ==
    /\ payload.remote.tracked
    /\ payload.remote.api_id \notin {None, ""}
    /\ payload.next_retry_at = << >>
    /\ payload.last_error = None

\* C34: in every persisted state reached from the empty store, every record
\* with status TRACKED has remote.tracked true, a non-empty remote.api_id, no
\* next_retry_at and no last_error.
C34_TrackedRecordFields ==
    \A i \in 1..Len(disk) :
        disk[i].payload.status = "tracked" => TrackedFields(disk[i].payload)

\* C34 witness: a record that failed a lookup, and so had a last_error and a
\* next_retry_at, has been tracked by a later lookup
C34_Witness ==
    \E i \in 1..Len(disk) :
        /\ disk[i].payload.status = "tracked"
        /\ disk[i].payload.attempts >= 1
        /\ TrackedFields(disk[i].payload)

\* the keys of the records whose lookups the running acquire has finished
LookedUp == { << run.results[i].source_year, run.results[i].local_id >> :
                  i \in 1..Len(run.results) }

\* C37: within one acquire run the lookup is invoked at most once per record:
\* the record a lookup is under way for is none of those the run has looked
\* up before, and the run's finished lookups are of different records.
C37_OneLookupPerRecord ==
    /\ run.pc = "lookup" => run.key \notin LookedUp
    /\ Cardinality(LookedUp) = Len(run.results)

\* C37 witness: a lookup is under way in a run that has left an earlier record
\* FAILED with max_attempts reached and next_retry_at absent, a record the
\* default filter lets through
C37_Witness ==
    /\ run.pc = "lookup"
    /\ run.status = None
    /\ \E k \in LookedUp :
          /\ k # run.key
          /\ Exhausted(Get(disk, k))
          /\ Get(disk, k).attempts >= run.max_attempts
          /\ ~Skipped(FromState(k, Get(disk, k)), run.now, run.year,
                      AllowedStatuses(run.status))

(***************************************************************************)
(* Acquire runs that all pass the same --max-attempts                      *)
(***************************************************************************)
\* the acquire command lines of the runs that all use max_attempts 1
SameMaxAcquireArgs ==
    { [DefaultArgs EXCEPT !.max_attempts = 1],
      [DefaultArgs EXCEPT !.max_attempts = 1, !.limit = 1],
      [DefaultArgs EXCEPT !.max_attempts = 1, !.year = FIRST_YEAR + 1],
      [DefaultArgs EXCEPT !.max_attempts = 1, !.year = FIRST_YEAR + 1, !.id = 2],
      [DefaultArgs EXCEPT !.max_attempts = 1, !.dry_run = TRUE] }

\* the program when every acquire is given the same --max-attempts
NextSameMax ==
    \/ \E year \in YearOpts : \E online \in OnlineOpts(year) :
          HandleInit(year, online)
    \/ \E args \in SameMaxAcquireArgs : \E online \in OnlineOpts(args.year) :
          HandleBookAcquire(args.year, args.status, args.id, args.limit,
                            args.max_attempts, args.dry_run, online)
    \/ NextRecord
    \/ \E result \in LookupResults : LookupReturns(result)
    \/ Kill
    \/ \E args \in ResetArgs :
          HandleBookReset(FALSE, {}, args.year, args.id)
    \/ Tick

SpecSameMax == Init /\ [][NextSameMax]_vars

\* C32 (as claimed): when every acquire run uses the same max_attempts, no
\* record's attempts counter exceeds it in any persisted state.
C32_AttemptsAtMostMax ==
    \A args \in SameMaxAcquireArgs : \A i \in 1..Len(disk) :
        disk[i].payload.attempts <= args.max_attempts

\* C35: acquire --year Y --id I with an optional status filter goes on to look
\* the record up exactly when iter_pending with the same store, now, year Y and
\* status filter yields that record, whatever the record's state and the
\* filter's value.
C35_SinglePathAgreesWithIterPending ==
    Returned("track_books, iter_pending") => run.value.single = run.value.iter

\* C35 witness: both have been asked, with the filter "failed", about a FAILED
\* record whose retry time is the run's now, and both take it
C35_Witness ==
    /\ Returned("track_books, iter_pending")
    /\ run.arg.status = "failed"
    /\ Len(run.arg.file) = 2
    /\ run.arg.file[2].payload.status = "failed"
    /\ run.arg.file[2].payload.next_retry_at = << run.arg.now >>
    /\ run.arg.now > 0
    /\ run.value.single
    /\ run.value.iter

\* the keys of the records the running acquire has taken from the generator,
\* in the order it took them
Taken ==
    [ i \in 1..Len(run.results) |->
          << run.results[i].source_year, run.results[i].local_id >> ]
    \o (IF run.pc = "lookup" THEN << run.key >> ELSE << >>)

\* C36: the records a real acquire run processes are, in the same order, the
\* records list(iter_pending(...)) holds when the run starts, which is what a
\* dry run from the same store, now, year, status and limit reports (its
\* iter_pending call is the one made on the store the run has just saved):
\* while the run goes on, the records taken are the first of that list, and
\* when the generator returns they are the whole list.
C36_DryRunReportsWhatRunProcesses ==
    (run.pc \in {"iter", "lookup"} /\ run.book_id = NoneInt) =>
        /\ run.pos = 1 =>
               run.plan = IterPending(disk, run.now, run.limit, run.year, run.status)
        /\ Len(Taken) <= Len(run.plan)
        /\ Taken = Take(run.plan, Len(Taken))
        /\ ( /\ run.pc = "iter"
             /\ NextYield(disk, run.pos, run.count, run.now, run.limit,
                          run.year, run.status) = 0 )
           => Taken = run.plan

\* C36 witness: the generator is about to return in a run that has processed
\* two records, the first of them written back as FAILED and no longer what the
\* store held when the run began
C36_Witness ==
    /\ run.pc = "iter"
    /\ run.book_id = NoneInt
    /\ Len(run.plan) = 2
    /\ Taken = run.plan
    /\ NextYield(disk, run.pos, run.count, run.now, run.limit,
                 run.year, run.status) = 0
    /\ Get(disk, run.plan[1]).status = "failed"
    /\ Get(disk, run.plan[1]).attempts = 1

\* the step leaves as it is, and where it is, every record of the store that
\* is not of year `year`, when a year is given, and every record but the one
\* under the key of year and id, when an id is given
OthersUnchanged(year, id) ==
    \A i \in 1..Len(disk) :
        ( \/ year # NoneInt /\ disk[i].payload.source_year # year
          \/ id # NoneInt /\ disk[i].key # BookKey(year, id) )
        => /\ i <= Len(disk')
           /\ disk'[i] = disk[i]

\* C38: no step of an acquire run with a year filter Y, from the command's
\* start to its end, changes a record whose source_year is not Y, and no step
\* of a run for a single key changes another record: every other record that
\* was in the store stays identical.
C38_RunChangesOnlyItsRecords ==
    [][ /\ (run.pc = "idle" /\ disk' # disk) =>
               \A args \in SameMaxAcquireArgs : \A online \in BOOLEAN :
                   ( /\ args.year # NoneInt
                     /\ HandleBookAcquire(args.year, args.status, args.id, args.limit,
                                          args.max_attempts, args.dry_run, online) )
                   => OthersUnchanged(args.year, args.id)
        /\ run.pc # "idle" => OthersUnchanged(run.year, run.book_id) ]_vars

\* C38 witness: a run with a year filter has recorded the outcome of that
\* year's record and its generator has returned, the other year's record,
\* PENDING since it was seeded, still as it was
C38_Witness ==
    /\ run.pc = "iter"
    /\ run.year = FIRST_YEAR + 1
    /\ run.book_id = NoneInt
    /\ run.processed = 1
    /\ Len(disk) = 2
    /\ disk[1].key = BookKey(FIRST_YEAR, 1)
    /\ Fresh(disk[1].payload)
    /\ disk[2].payload.status \in {"tracked", "failed"}
    /\ NextYield(disk, run.pos, run.count, run.now, run.limit,
                 run.year, run.status) = 0

(***************************************************************************)
(* Acquire runs that go on until they end                                  *)
(***************************************************************************)
\* the acquire command lines of the runs followed to their end
RunAcquireArgs ==
    { DefaultArgs,
      [DefaultArgs EXCEPT !.limit = 1],
      [DefaultArgs EXCEPT !.status = "tracked"],
      [DefaultArgs EXCEPT !.year = FIRST_YEAR, !.id = 1, !.max_attempts = 1] }

NextRun ==
    \/ \E year \in YearOpts : \E online \in OnlineOpts(year) :
          HandleInit(year, online)
    \/ \E args \in RunAcquireArgs : \E online \in OnlineOpts(args.year) :
          HandleBookAcquire(args.year, args.status, args.id, args.limit,
                            args.max_attempts, args.dry_run, online)
    \/ NextRecord
    \/ \E result \in LookupOutcomes : LookupReturns(result)
    \/ Kill
    \/ Tick

\* a step of the acquire process
RunStep ==
    \/ Kill
    \/ NextRecord
    \/ \E result \in LookupOutcomes : LookupReturns(result)

\* track_books is sequential code: an acquire process does not stand still for
\* ever. Unless it is killed, its loop goes on to ask the generator for the
\* next record, and search_book, once called, returns or raises.
SpecRun ==
    /\ Init
    /\ [][NextRun]_vars
    /\ WF_vars(RunStep)

\* the step is the end of an acquire run that was not killed: the generator
\* returns, or the lookup of the single record is recorded
RunEnds ==
    /\ run'.pc = "idle"
    /\ \/ NextRecord
       \/ \E result \in LookupOutcomes : LookupReturns(result)

\* C39: every acquire run ends, whatever its lookups return or raise; it makes
\* no more lookups than the store has records; and when it ends without having
\* been killed, no record it looked up is IN_PROGRESS.
C39_RunTerminates ==
    /\ [](run.pc # "idle" => Len(Taken) <= Len(disk))
    /\ [][ RunEnds =>
             \A i \in 1..Len(Taken) : StatusAt(disk', Taken[i]) # "in_progress" ]_vars
    /\ (run.pc # "idle") ~> (run.pc = "idle")

\* C39 witness: the generator is about to return in a run that has looked up
\* every record of the store, one lookup having raised, and none of them is
\* IN_PROGRESS
C39_Witness ==
    /\ run.pc = "iter"
    /\ Len(disk) = 2
    /\ Len(Taken) = Len(disk)
    /\ \E i \in 1..Len(run.results) : run.results[i].status = "error"
    /\ NextYield(disk, run.pos, run.count, run.now, run.limit,
                 run.year, run.status) = 0
    /\ \A i \in 1..Len(disk) : disk[i].payload.status # "in_progress"

(***************************************************************************)
(* Acquire runs repeated for ever                                          *)
(***************************************************************************)
\* the command line of the repeated runs: a fixed limit, the default status
\* filter, and a max_attempts within the model's bound on attempts
RepeatArgs == [DefaultArgs EXCEPT !.limit = 1, !.max_attempts = 1]

\* the repeated command
RepeatAcquire ==
    \E online \in OnlineOpts(RepeatArgs.year) :
        HandleBookAcquire(RepeatArgs.year, RepeatArgs.status, RepeatArgs.id,
                          RepeatArgs.limit, RepeatArgs.max_attempts,
                          RepeatArgs.dry_run, online)

\* a lookup fails for a record whose attempts are at the model's bound. The
\* code counts on without bound; the model keeps the count at MaxAttempts,
\* which changes nothing else in the record: max_attempts being at most
\* MaxAttempts, every count from MaxAttempts on takes the branch of
\* mark_failed_with_backoff's lines 254-257.
LookupFailsAgain(result) ==
    /\ run.pc = "lookup"
    /\ ~IsTracked(result)
    /\ run.rec.attempts = MaxAttempts
    /\ run.max_attempts <= MaxAttempts
    /\ LET failed == MarkFailedWithBackoff(run.rec, "not found",
                                           run.max_attempts, run.now)
           rec == [failed EXCEPT !.attempts = MaxAttempts]
       IN  /\ disk' = Persisted(Put(disk, run.key, ToState(rec)))
           /\ run' = IF run.book_id # NoneInt THEN Idle
                     ELSE [run EXCEPT !.pc = "iter", !.key = NoKey, !.rec = NoRec,
                                      !.processed = run.processed + 1,
                                      !.results = Append(run.results,
                                          ResultData(run.rec, result, rec))]
           /\ last' = "other"
    /\ UNCHANGED <<files, clock, fs>>

\* a lookup returns
LookupEnds ==
    \E result \in LookupResults : LookupReturns(result) \/ LookupFailsAgain(result)

NextRepeat ==
    \/ \E year \in YearOpts : \E online \in OnlineOpts(year) :
          HandleInit(year, online)
    \/ RepeatAcquire
    \/ NextRecord
    \/ LookupEnds
    \/ Tick

\* the command is run again and again, no process is killed, every run goes
\* on to its end, and time passes
SpecRepeat ==
    /\ Init
    /\ [][NextRepeat]_vars
    /\ WF_vars(RepeatAcquire)
    /\ WF_vars(NextRecord)
    /\ WF_vars(LookupEnds)
    /\ WF_vars(Tick)

\* C31 (as claimed): under repeated acquire runs with a fixed limit, the
\* default status filter and no crash, every PENDING record of the store is
\* eventually selected for a lookup, even when records before it keep failing.
C31_PendingEventuallySelected ==
    \A k \in { BookKey(year, YearJson(year)[1].id) : year \in AvailableYears } :
        (k \in Keys(disk) /\ StatusAt(disk, k) = "pending")
            ~> (run.pc = "lookup" /\ run.key = k)

====
